---- MODULE Spec2Model ----
(***************************************************************************)
(* Product catalog: the Product entity, the TypeORM ProductRepository and  *)
(* the use cases CreateProduct, GetProductById, UpdateProduct,             *)
(* DeleteProduct and UpdateStock, run by concurrent requests against one   *)
(* products table.                                                         *)
(*                                                                         *)
(* Strings are sequences of one-character strings, so that trim() and      *)
(* toUpperCase() are computed.  Prices are whole cents.  Dates are ticks   *)
(* of one clock.  An optional value (T | undefined, T | null) is a         *)
(* sequence of length 0 or 1.  Product instances live in a heap, a         *)
(* sequence of their schemas; a reference is an index into it.             *)
(***************************************************************************)
EXTENDS Integers, Sequences, FiniteSets, TLC

VARIABLES store, now, nextId, reqs, heap, call

vars == <<store, now, nextId, reqs, heap, call>>

----------------------------------------------------------------------------
(* Bounds *)

MaxProducts == 2
MaxTime == 1

Requests == {"r1", "r2"}
ProductIds == 1..MaxProducts

----------------------------------------------------------------------------
(* Strings *)

LowerLetters ==
  <<"a", "b", "c", "d", "e", "f", "g", "h", "i", "j", "k", "l", "m", "n",
    "o", "p", "q", "r", "s", "t", "u", "v", "w", "x", "y", "z">>

UpperLetters ==
  <<"A", "B", "C", "D", "E", "F", "G", "H", "I", "J", "K", "L", "M", "N",
    "O", "P", "Q", "R", "S", "T", "U", "V", "W", "X", "Y", "Z">>

Upper(c) ==
  IF \E i \in DOMAIN LowerLetters : LowerLetters[i] = c
  THEN UpperLetters[CHOOSE i \in DOMAIN LowerLetters : LowerLetters[i] = c]
  ELSE c

IsSpace(c) == c = " "

toUpperCase(s) == [i \in DOMAIN s |-> Upper(s[i])]

RECURSIVE trimStart(_)
trimStart(s) ==
  IF s = <<>> THEN s
  ELSE IF IsSpace(Head(s)) THEN trimStart(Tail(s)) ELSE s

RECURSIVE trimEnd(_)
trimEnd(s) ==
  IF s = <<>> THEN s
  ELSE IF IsSpace(s[Len(s)]) THEN trimEnd(SubSeq(s, 1, Len(s) - 1)) ELSE s

trim(s) == trimEnd(trimStart(s))

\* !s || s.trim().length === 0
IsBlank(s) == s = <<>> \/ Len(trim(s)) = 0

----------------------------------------------------------------------------
(* Optional values and errors *)

None == <<>>
Some(v) == <<v>>
IsSome(o) == o # <<>>
Get(o) == o[1]

NoError == [kind |-> "none", msg |-> ""]
Err(kind, msg) == [kind |-> kind, msg |-> msg]

Ok(p) == [ok |-> TRUE, value |-> Some(p), error |-> NoError]
Throw(kind, msg) == [ok |-> FALSE, value |-> None, error |-> Err(kind, msg)]

ProductNotFoundError(id) == Err("ProductNotFoundError", "id")
DuplicateProductCodeError(sku) == Err("DuplicateProductCodeError", "sku")
InvalidProductDataError_forNegativeValue(field) ==
  Err("InvalidProductDataError", field)

----------------------------------------------------------------------------
(* Product entity *)

\* create that looks at the sku before it looks at the name
Product_create_skuFirst(id, name, description, price, stock, sku, categoryId, t) ==
  IF IsBlank(sku) THEN Throw("Error", "Product SKU cannot be empty")
  ELSE IF IsBlank(name) THEN Throw("Error", "Product name cannot be empty")
  ELSE IF price < 0 THEN Throw("Error", "Product price cannot be negative")
  ELSE IF stock < 0 THEN Throw("Error", "Product stock cannot be negative")
  ELSE Ok([id |-> id,
           name |-> trim(name),
           description |-> trim(description),
           price |-> price,
           stock |-> stock,
           sku |-> toUpperCase(trim(sku)),
           categoryId |-> categoryId,
           isActive |-> TRUE,
           createdAt |-> t,
           updatedAt |-> t])

\* create that stores the SKU trimmed but in the case it was given
Product_create_keepsCase(id, name, description, price, stock, sku, categoryId, t) ==
  IF IsBlank(name) THEN Throw("Error", "Product name cannot be empty")
  ELSE IF price < 0 THEN Throw("Error", "Product price cannot be negative")
  ELSE IF stock < 0 THEN Throw("Error", "Product stock cannot be negative")
  ELSE IF IsBlank(sku) THEN Throw("Error", "Product SKU cannot be empty")
  ELSE Ok([id |-> id,
           name |-> trim(name),
           description |-> trim(description),
           price |-> price,
           stock |-> stock,
           sku |-> trim(sku),
           categoryId |-> categoryId,
           isActive |-> TRUE,
           createdAt |-> t,
           updatedAt |-> t])

Product_create(id, name, description, price, stock, sku, categoryId, t) ==
  IF IsBlank(name) THEN Throw("Error", "Product name cannot be empty")
  ELSE IF price < 0 THEN Throw("Error", "Product price cannot be negative")
  ELSE IF stock < 0 THEN Throw("Error", "Product stock cannot be negative")
  ELSE IF IsBlank(sku) THEN Throw("Error", "Product SKU cannot be empty")
  ELSE Ok([id |-> id,
           name |-> trim(name),
           description |-> trim(description),
           price |-> price,
           stock |-> stock,
           sku |-> toUpperCase(trim(sku)),
           categoryId |-> categoryId,
           isActive |-> TRUE,
           createdAt |-> t,
           updatedAt |-> t])

Product_updateName(p, newName, t) ==
  IF IsBlank(newName) THEN Throw("Error", "Product name cannot be empty")
  ELSE Ok([p EXCEPT !.name = trim(newName), !.updatedAt = t])

Product_updateDescription(p, newDescription, t) ==
  Ok([p EXCEPT !.description = trim(newDescription), !.updatedAt = t])

Product_updatePrice(p, newPrice, t) ==
  IF newPrice < 0 THEN Throw("Error", "Product price cannot be negative")
  ELSE Ok([p EXCEPT !.price = newPrice, !.updatedAt = t])

Product_updateStock(p, newStock, t) ==
  IF newStock < 0 THEN Throw("Error", "Product stock cannot be negative")
  ELSE Ok([p EXCEPT !.stock = newStock, !.updatedAt = t])

Product_incrementStock(p, amount, t) ==
  IF amount <= 0 THEN Throw("Error", "Stock increment amount must be positive")
  ELSE Product_updateStock(p, p.stock + amount, t)

\* decrementStock without the check of the remaining stock
Product_decrementStock_unchecked(p, amount, t) ==
  IF amount <= 0 THEN Throw("Error", "Stock decrement amount must be positive")
  ELSE Ok([p EXCEPT !.stock = p.stock - amount, !.updatedAt = t])

\* decrementStock that empties the stock instead of failing
Product_decrementStock_clamped(p, amount, t) ==
  IF amount <= 0 THEN Throw("Error", "Stock decrement amount must be positive")
  ELSE Product_updateStock(
         p, IF p.stock - amount < 0 THEN 0 ELSE p.stock - amount, t)

Product_decrementStock(p, amount, t) ==
  IF amount <= 0 THEN Throw("Error", "Stock decrement amount must be positive")
  ELSE IF p.stock - amount < 0 THEN Throw("Error", "Insufficient stock")
  ELSE Product_updateStock(p, p.stock - amount, t)

Product_updateCategory(p, newCategoryId, t) ==
  IF IsBlank(newCategoryId) THEN Throw("Error", "Category ID cannot be empty")
  ELSE Ok([p EXCEPT !.categoryId = trim(newCategoryId), !.updatedAt = t])

\* `$${price.toFixed(2)}` of a price in cents
Product_getFormattedPrice(p) == <<"$", p.price \div 100, ".", p.price % 100>>

Product_isInStock(p) == p.stock > 0

LowStockThreshold == 10

\* isLowStock that counts an empty stock as low
Product_isLowStockWith_inclusive(p, threshold) ==
  p.stock >= 0 /\ p.stock <= threshold

Product_isLowStockWith(p, threshold) == p.stock > 0 /\ p.stock <= threshold

Product_isLowStock(p) == Product_isLowStockWith(p, LowStockThreshold)

Product_isOutOfStock(p) == p.stock = 0

Product_canBePurchased(p, quantity) == p.isActive /\ p.stock >= quantity

mapToDTO(p) ==
  [id |-> p.id,
   name |-> p.name,
   description |-> p.description,
   sku |-> p.sku,
   price |-> p.price,
   formattedPrice |-> Product_getFormattedPrice(p),
   stock |-> p.stock,
   categoryId |-> p.categoryId,
   isActive |-> p.isActive,
   isInStock |-> Product_isInStock(p),
   isLowStock |-> Product_isLowStock(p),
   createdAt |-> p.createdAt,
   updatedAt |-> p.updatedAt]

----------------------------------------------------------------------------
(* ProductRepository: the products table is a function from id to row *)

Put(s, id, row) == [i \in DOMAIN s \cup {id} |-> IF i = id THEN row ELSE s[i]]

Remove(s, id) == [i \in DOMAIN s \ {id} |-> s[i]]

RepoResult(ok, s, value, error) ==
  [ok |-> ok, store |-> s, value |-> value, error |-> error]

findById(s, id) == IF id \in DOMAIN s THEN Some(s[id]) ELSE None

\* existsBySku that compares the SKU as given
existsBySku_caseSensitive(s, sku) ==
  Cardinality({i \in DOMAIN s : s[i].sku = sku}) > 0

existsBySku(s, sku) ==
  Cardinality({i \in DOMAIN s : s[i].sku = toUpperCase(sku)}) > 0

\* a sku column without the unique constraint
ViolatesUniqueSku_never(s, sku) == FALSE

\* the unique constraint of the sku column
ViolatesUniqueSku(s, sku) == \E i \in DOMAIN s : s[i].sku = sku

\* repository.create + save of a row with a fresh id: an INSERT; the
\* createdAt and updatedAt columns are stamped by the table
Repo_create(s, product, t) ==
  LET row == [id |-> product.id,
              name |-> product.name,
              description |-> product.description,
              price |-> product.price,
              stock |-> product.stock,
              sku |-> product.sku,
              categoryId |-> product.categoryId,
              isActive |-> product.isActive,
              createdAt |-> t,
              updatedAt |-> t]
  IN IF ViolatesUniqueSku(s, product.sku)
     THEN RepoResult(FALSE, s, None,
                     Err("QueryFailedError", "duplicate key value"))
     ELSE RepoResult(TRUE, Put(s, product.id, row), Some(row), NoError)

\* update with the null check after the write inverted
Repo_update_throwsAfterWrite(s, id, product, t) ==
  IF id \notin DOMAIN s
  THEN RepoResult(FALSE, s, None, Err("Error", "not found after update"))
  ELSE LET row == [s[id] EXCEPT !.name = product.name,
                                !.description = product.description,
                                !.price = product.price,
                                !.stock = product.stock,
                                !.categoryId = product.categoryId,
                                !.isActive = product.isActive,
                                !.updatedAt = t]
       IN RepoResult(FALSE, Put(s, id, row), None,
                     Err("Error", "not found after update"))

\* update that leaves the categoryId column out
Repo_update_withoutCategory(s, id, product, t) ==
  IF id \notin DOMAIN s
  THEN RepoResult(FALSE, s, None, Err("Error", "not found after update"))
  ELSE LET row == [s[id] EXCEPT !.name = product.name,
                                !.description = product.description,
                                !.price = product.price,
                                !.stock = product.stock,
                                !.isActive = product.isActive,
                                !.updatedAt = t]
       IN RepoResult(TRUE, Put(s, id, row), Some(row), NoError)

\* update that saves the entity, inserting the row when it is absent
Repo_update_upsert(s, id, product, t) ==
  LET base == IF id \in DOMAIN s THEN s[id]
              ELSE [product EXCEPT !.createdAt = t]
      row == [base EXCEPT !.name = product.name,
                          !.description = product.description,
                          !.price = product.price,
                          !.stock = product.stock,
                          !.categoryId = product.categoryId,
                          !.isActive = product.isActive,
                          !.updatedAt = t]
  IN RepoResult(TRUE, Put(s, id, row), Some(row), NoError)

Repo_update(s, id, product, t) ==
  IF id \notin DOMAIN s
  THEN RepoResult(FALSE, s, None, Err("Error", "not found after update"))
  ELSE LET row == [s[id] EXCEPT !.name = product.name,
                                !.description = product.description,
                                !.price = product.price,
                                !.stock = product.stock,
                                !.categoryId = product.categoryId,
                                !.isActive = product.isActive,
                                !.updatedAt = t]
       IN RepoResult(TRUE, Put(s, id, row), Some(row), NoError)

\* updateStock that adds the value to the stock column
Repo_updateStock_relative(s, productId, newStock, t) ==
  IF productId \notin DOMAIN s
  THEN RepoResult(FALSE, s, None,
                  Err("Error", "not found after stock update"))
  ELSE LET row == [s[productId] EXCEPT !.stock = @ + newStock,
                                       !.updatedAt = t]
       IN RepoResult(TRUE, Put(s, productId, row), Some(row), NoError)

\* updateStock that stamps createdAt as well as updatedAt
Repo_updateStock_restamped(s, productId, newStock, t) ==
  IF productId \notin DOMAIN s
  THEN RepoResult(FALSE, s, None,
                  Err("Error", "not found after stock update"))
  ELSE LET row == [s[productId] EXCEPT !.stock = newStock, !.createdAt = t,
                                       !.updatedAt = t]
       IN RepoResult(TRUE, Put(s, productId, row), Some(row), NoError)

Repo_updateStock(s, productId, newStock, t) ==
  IF productId \notin DOMAIN s
  THEN RepoResult(FALSE, s, None,
                  Err("Error", "not found after stock update"))
  ELSE LET row == [s[productId] EXCEPT !.stock = newStock, !.updatedAt = t]
       IN RepoResult(TRUE, Put(s, productId, row), Some(row), NoError)

\* a delete that only marks the row inactive
Repo_delete_soft(s, id) ==
  IF id \in DOMAIN s THEN [s EXCEPT ![id].isActive = FALSE] ELSE s

Repo_delete(s, id) == Remove(s, id)

----------------------------------------------------------------------------
(* Inputs of the use cases: a valid input and its variants *)

With(rec, field, v) == [rec EXCEPT ![field] = v]

ValidCreateInput ==
  [name |-> <<"n", " ">>, description |-> <<"d", " ">>, price |-> 500,
   stock |-> 2, sku |-> <<"a">>, categoryId |-> <<"c">>]

CreateInputs ==
  {ValidCreateInput}
    \cup {With(ValidCreateInput, "name", v) : v \in {<<" ">>}}
    \cup {With(ValidCreateInput, "price", v) : v \in {-1}}
    \cup {With(ValidCreateInput, "stock", v) : v \in {-1, 0, 11}}
    \cup {With(ValidCreateInput, "sku", v) :
            v \in {<<>>, <<"A">>, <<" ", "a">>, <<"b">>}}
    \cup {With(ValidCreateInput, "categoryId", v) : v \in {<<"c", " ">>}}

Optional(S) == {None} \cup {Some(v) : v \in S}

NoData ==
  [name |-> None, description |-> None, price |-> None, stock |-> None,
   categoryId |-> None, isActive |-> None]

OneField ==
  {With(NoData, "name", Some(v)) : v \in {<<>>, <<" ", "m">>}}
    \cup {With(NoData, "description", Some(v)) : v \in {<<" ", "e">>}}
    \cup {With(NoData, "price", Some(v)) : v \in {-1, 700}}
    \cup {With(NoData, "stock", Some(v)) : v \in {-1, 1}}
    \cup {With(NoData, "categoryId", Some(v)) : v \in {<<>>, <<"k", " ">>}}
    \cup {With(NoData, "isActive", Some(v)) : v \in BOOLEAN}

\* a valid name together with one more field
NameAndField ==
  {With(d, "name", Some(<<" ", "m">>)) : d \in OneField}

UpdateData == {NoData} \cup OneField \cup NameAndField

UpdateInputs == [id : ProductIds, data : UpdateData]

Quantities == {0, 1, 2}

UpdateStockInputs ==
  [productId : ProductIds, quantity : Quantities,
   operation : {"increment", "decrement"}]

----------------------------------------------------------------------------
(* Requests: each runs one use case; a step is the code between two awaited
   repository calls, together with the repository call that ends it *)

IdleReq ==
  [pc |-> "idle", op |-> "none", input |-> None, snap |-> None,
   pending |-> None, error |-> NoError, result |-> None, calls |-> <<>>,
   solo |-> TRUE]

InFlight(req) == req.pc \notin {"idle", "done"}

Begin(op, input) == [IdleReq EXCEPT !.op = op, !.input = input]

Await(req, pc, calls) == [req EXCEPT !.pc = pc, !.calls = calls]

Fail(req, error, calls) ==
  [req EXCEPT !.pc = "done", !.error = error, !.calls = calls]

Return(req, result, calls) ==
  [req EXCEPT !.pc = "done", !.result = result, !.calls = calls]

\* request r moves to newReq; every other request in flight is interleaved
Step(r, newReq) ==
  reqs' = [q \in Requests |->
             IF q = r THEN newReq
             ELSE IF InFlight(reqs[q]) THEN [reqs[q] EXCEPT !.solo = FALSE]
             ELSE reqs[q]]

\* the table at start-up: empty, or holding rows created earlier
SeedRow(s, id, sku, stock) ==
  Repo_create(s, Get(Product_create(id, <<"n">>, <<"d">>, 500, stock, sku,
                                    <<"c">>, 0).value), 0).store

SeedStores ==
  {<< >>,
   SeedRow(<< >>, 1, <<"a">>, 2),
   SeedRow(SeedRow(<< >>, 1, <<"a">>, 2), 2, <<"b">>, 0)}

\* no call on a Product has been made
NoCall ==
  [op |-> "none", self |-> 0, input |-> None, text |-> <<>>, num |-> 0,
   at |-> 0, ret |-> 0, answer |-> None, error |-> NoError]

Init ==
  /\ store \in SeedStores
  /\ now = 0
  /\ nextId = Cardinality(DOMAIN store) + 1
  /\ reqs = [r \in Requests |-> IdleReq]
  /\ heap = <<>>
  /\ call = NoCall

Tick ==
  /\ now < MaxTime
  /\ now' = now + 1
  /\ UNCHANGED <<store, nextId, reqs, heap, call>>

(* CreateProductUseCase.execute *)

CreateProductStart(r) ==
  /\ reqs[r].pc = "idle"
  /\ \E input \in CreateInputs :
       LET req == Begin("CreateProduct", input)
           product == Product_create(nextId, input.name, input.description,
                                     input.price, input.stock, input.sku,
                                     input.categoryId, now)
       IN IF existsBySku(store, input.sku)
          THEN /\ Step(r, Fail(req, DuplicateProductCodeError(input.sku),
                               <<"existsBySku">>))
               /\ UNCHANGED nextId
          ELSE IF ~product.ok
          THEN /\ Step(r, Fail(req, product.error, <<"existsBySku">>))
               /\ UNCHANGED nextId
          ELSE /\ nextId <= MaxProducts
               /\ Step(r, Await([req EXCEPT !.pending = product.value],
                                "create", <<"existsBySku">>))
               /\ nextId' = nextId + 1
  /\ UNCHANGED <<store, now, heap, call>>

CreateProductPersist(r) ==
  /\ reqs[r].pc = "create"
  /\ LET req == reqs[r]
         saved == Repo_create(store, Get(req.pending), now)
         calls == Append(req.calls, "create")
     IN /\ store' = saved.store
        /\ IF saved.ok
           THEN Step(r, Return(req, Some(mapToDTO(Get(saved.value))), calls))
           ELSE Step(r, Fail(req, saved.error, calls))
  /\ UNCHANGED <<now, nextId, heap, call>>

(* GetProductByIdUseCase.execute *)

GetProductById(r) ==
  /\ reqs[r].pc = "idle"
  /\ \E id \in ProductIds :
       LET req == Begin("GetProductById", id)
           product == findById(store, id)
       IN IF ~IsSome(product)
          THEN Step(r, Fail(req, ProductNotFoundError(id), <<"findById">>))
          ELSE Step(r, Return([req EXCEPT !.snap = product],
                              Some(mapToDTO(Get(product))), <<"findById">>))
  /\ UNCHANGED <<store, now, nextId, heap, call>>

(* UpdateProductUseCase.execute *)

\* each field of the input is applied unless an earlier one has thrown
UpdateProduct_apply(existingProduct, data, t) ==
  LET r1 == IF ~IsSome(data.name) THEN Ok(existingProduct)
            ELSE Product_updateName(existingProduct, Get(data.name), t)
      r2 == IF ~r1.ok \/ ~IsSome(data.description) THEN r1
            ELSE Product_updateDescription(Get(r1.value),
                                           Get(data.description), t)
      r3 == IF ~r2.ok \/ ~IsSome(data.price) THEN r2
            ELSE Product_updatePrice(Get(r2.value), Get(data.price), t)
      r4 == IF ~r3.ok \/ ~IsSome(data.stock) THEN r3
            ELSE Product_updateStock(Get(r3.value), Get(data.stock), t)
  IN IF ~r4.ok \/ ~IsSome(data.categoryId) THEN r4
     ELSE Product_updateCategory(Get(r4.value), Get(data.categoryId), t)

UpdateProductStart(r) ==
  /\ reqs[r].pc = "idle"
  /\ \E input \in UpdateInputs :
       LET req == Begin("UpdateProduct", input)
           existingProduct == findById(store, input.id)
           updatedProduct ==
             UpdateProduct_apply(Get(existingProduct), input.data, now)
       IN IF ~IsSome(existingProduct)
          THEN Step(r, Fail(req, ProductNotFoundError(input.id),
                            <<"findById">>))
          ELSE IF ~updatedProduct.ok
          THEN Step(r, Fail([req EXCEPT !.snap = existingProduct],
                            updatedProduct.error, <<"findById">>))
          ELSE Step(r, Await([req EXCEPT !.snap = existingProduct,
                                         !.pending = updatedProduct.value],
                             "update", <<"findById">>))
  /\ UNCHANGED <<store, now, nextId, heap, call>>

UpdateProductPersist(r) ==
  /\ reqs[r].pc = "update"
  /\ LET req == reqs[r]
         saved == Repo_update(store, req.input.id, Get(req.pending), now)
         calls == Append(req.calls, "update")
     IN /\ store' = saved.store
        /\ IF saved.ok
           THEN Step(r, Return(req, Some(mapToDTO(Get(saved.value))), calls))
           ELSE Step(r, Fail(req, saved.error, calls))
  /\ UNCHANGED <<now, nextId, heap, call>>

(* UpdateStockUseCase.execute *)

\* execute that checks the quantity before it looks at the product
UpdateStock_apply_quantityFirst(product, input, t) ==
  IF input.quantity <= 0
  THEN [ok |-> FALSE, value |-> None,
        error |-> InvalidProductDataError_forNegativeValue("quantity")]
  ELSE IF ~IsSome(product)
  THEN [ok |-> FALSE, value |-> None,
        error |-> ProductNotFoundError(input.productId)]
  ELSE IF input.operation = "increment"
  THEN Product_incrementStock(Get(product), input.quantity, t)
  ELSE Product_decrementStock(Get(product), input.quantity, t)

\* the code between findById and repository.updateStock
UpdateStock_apply(product, input, t) ==
  IF ~IsSome(product)
  THEN [ok |-> FALSE, value |-> None,
        error |-> ProductNotFoundError(input.productId)]
  ELSE IF input.quantity <= 0
  THEN [ok |-> FALSE, value |-> None,
        error |-> InvalidProductDataError_forNegativeValue("quantity")]
  ELSE IF input.operation = "increment"
  THEN Product_incrementStock(Get(product), input.quantity, t)
  ELSE Product_decrementStock(Get(product), input.quantity, t)

UpdateStockStart(r) ==
  /\ reqs[r].pc = "idle"
  /\ \E input \in UpdateStockInputs :
       LET product == findById(store, input.productId)
           req == [Begin("UpdateStock", input) EXCEPT !.snap = product]
           updatedProduct == UpdateStock_apply(product, input, now)
       IN IF ~updatedProduct.ok
          THEN Step(r, Fail(req, updatedProduct.error, <<"findById">>))
          ELSE Step(r, Await([req EXCEPT !.pending = updatedProduct.value],
                             "updateStock", <<"findById">>))
  /\ UNCHANGED <<store, now, nextId, heap, call>>

\* a write that is refused when the stock read by findById is no longer the
\* stock of the row
UpdateStockPersist_compareAndSet(r) ==
  /\ reqs[r].pc = "updateStock"
  /\ LET req == reqs[r]
         id == req.input.productId
         stale == id \in DOMAIN store
                    /\ store[id].stock # Get(req.snap).stock
         saved == Repo_updateStock(store, id, Get(req.pending).stock, now)
         calls == Append(req.calls, "updateStock")
     IN IF stale
        THEN /\ store' = store
             /\ Step(r, Fail(req, Err("Error", "stale stock"), calls))
        ELSE /\ store' = saved.store
             /\ IF saved.ok
                THEN Step(r, Return(req, Some(mapToDTO(Get(saved.value))),
                                    calls))
                ELSE Step(r, Fail(req, saved.error, calls))
  /\ UNCHANGED <<now, nextId, heap, call>>

UpdateStockPersist(r) ==
  /\ reqs[r].pc = "updateStock"
  /\ LET req == reqs[r]
         saved == Repo_updateStock(store, req.input.productId,
                                   Get(req.pending).stock, now)
         calls == Append(req.calls, "updateStock")
     IN /\ store' = saved.store
        /\ IF saved.ok
           THEN Step(r, Return(req, Some(mapToDTO(Get(saved.value))), calls))
           ELSE Step(r, Fail(req, saved.error, calls))
  /\ UNCHANGED <<now, nextId, heap, call>>

(* DeleteProductUseCase.execute *)

DeleteProductStart(r) ==
  /\ reqs[r].pc = "idle"
  /\ \E id \in ProductIds :
       LET req == Begin("DeleteProduct", id)
           product == findById(store, id)
       IN IF ~IsSome(product)
          THEN Step(r, Fail(req, ProductNotFoundError(id), <<"findById">>))
          ELSE Step(r, Await([req EXCEPT !.snap = product], "delete",
                             <<"findById">>))
  /\ UNCHANGED <<store, now, nextId, heap, call>>

DeleteProductPersist(r) ==
  /\ reqs[r].pc = "delete"
  /\ store' = Repo_delete(store, reqs[r].input)
  /\ Step(r, Return(reqs[r], None, Append(reqs[r].calls, "delete")))
  /\ UNCHANGED <<now, nextId, heap, call>>

----------------------------------------------------------------------------

Next ==
  \/ Tick
  \/ \E r \in Requests : CreateProductStart(r)
  \/ \E r \in Requests : CreateProductPersist(r)
  \/ \E r \in Requests : GetProductById(r)
  \/ \E r \in Requests : UpdateProductStart(r)
  \/ \E r \in Requests : UpdateProductPersist(r)
  \/ \E r \in Requests : UpdateStockStart(r)
  \/ \E r \in Requests : UpdateStockPersist(r)
  \/ \E r \in Requests : DeleteProductStart(r)
  \/ \E r \in Requests : DeleteProductPersist(r)

Spec == Init /\ [][Next]_vars

TypeOK == now \in 0..MaxTime

----------------------------------------------------------------------------
(* Product instances: calls on the entity by itself *)

MaxStock == 12

Returned(h, ref) == [heap |-> h, ret |-> ref, error |-> NoError]

Thrown(h, error) == [heap |-> h, ret |-> 0, error |-> error]

\* new Product(schema): a new instance, the instances there are stay as
\* they are
new_Product(h, schema) == Returned(Append(h, schema), Len(h) + 1)

\* a mutator that assigns to the schema of the receiver and returns it
Mutate_inPlace(h, self, res) ==
  IF res.ok THEN Returned([h EXCEPT ![self] = Get(res.value)], self)
  ELSE Thrown(h, res.error)

\* a mutator of the instance self whose checks and new schema are res:
\* throw, or return new Product({...this._entity, ...})
Mutate(h, self, res) ==
  IF res.ok THEN new_Product(h, Get(res.value)) ELSE Thrown(h, res.error)

\* activate that builds a new instance also when the product is active
Product_activate_alwaysNew(h, self, t) ==
  new_Product(h, [h[self] EXCEPT !.isActive = TRUE, !.updatedAt = t])

Product_activate(h, self, t) ==
  IF h[self].isActive THEN Returned(h, self)
  ELSE new_Product(h, [h[self] EXCEPT !.isActive = TRUE, !.updatedAt = t])

Product_deactivate(h, self, t) ==
  IF ~h[self].isActive THEN Returned(h, self)
  ELSE new_Product(h, [h[self] EXCEPT !.isActive = FALSE, !.updatedAt = t])

\* the arguments of Product.create: each of name, price, stock and sku
\* valid or invalid
EntityCreateInputs ==
  [name : {<<" ">>, <<"n", " ">>}, description : {<<"d", " ">>},
   price : {-1, 500}, stock : {-1, 2}, sku : {<<>>, <<" ", "a">>},
   categoryId : {<<"c">>}]

\* rows handed to createFromPersistence by the repository
PersistedSchemas ==
  {[id |-> 1, name |-> <<"n">>, description |-> <<"d">>, price |-> 500,
    stock |-> st, sku |-> <<"A">>, categoryId |-> <<"c">>, isActive |-> a,
    createdAt |-> 0, updatedAt |-> 0] : st \in {0, 1, 10, 11}, a \in BOOLEAN}

MutatorCall(op, text, num) == [op |-> op, text |-> text, num |-> num]

MutatorCalls ==
  {MutatorCall("updateName", v, 0) : v \in {<<>>, <<" ", "m">>}}
    \cup {MutatorCall("updateDescription", v, 0) : v \in {<<" ", "d">>}}
    \cup {MutatorCall("updatePrice", <<>>, v) : v \in {-1, 500}}
    \cup {MutatorCall("updateStock", <<>>, v) : v \in {-1, 1}}
    \cup {MutatorCall("incrementStock", <<>>, v) : v \in {0, 10}}
    \cup {MutatorCall("decrementStock", <<>>, v) : v \in {0, 10}}
    \cup {MutatorCall("updateCategory", v, 0) : v \in {<<" ">>, <<"c", " ">>}}

ApplyMutator(p, c, t) ==
  CASE c.op = "updateName" -> Product_updateName(p, c.text, t)
    [] c.op = "updateDescription" -> Product_updateDescription(p, c.text, t)
    [] c.op = "updatePrice" -> Product_updatePrice(p, c.num, t)
    [] c.op = "updateStock" -> Product_updateStock(p, c.num, t)
    [] c.op = "incrementStock" -> Product_incrementStock(p, c.num, t)
    [] c.op = "decrementStock" -> Product_decrementStock(p, c.num, t)
    [] c.op = "updateCategory" -> Product_updateCategory(p, c.text, t)

Thresholds == {0, 5}
PurchaseQuantities == {0, 1, 12}

QueryCalls ==
  {[op |-> "isInStock", num |-> 0], [op |-> "isOutOfStock", num |-> 0],
   [op |-> "isLowStock()", num |-> LowStockThreshold]}
    \cup {[op |-> "isLowStock(threshold)", num |-> t] : t \in Thresholds}
    \cup {[op |-> "canBePurchased", num |-> q] : q \in PurchaseQuantities}

Answer(p, q) ==
  CASE q.op = "isInStock" -> Product_isInStock(p)
    [] q.op = "isOutOfStock" -> Product_isOutOfStock(p)
    [] q.op = "isLowStock()" -> Product_isLowStock(p)
    [] q.op = "isLowStock(threshold)" -> Product_isLowStockWith(p, q.num)
    [] q.op = "canBePurchased" -> Product_canBePurchased(p, q.num)

\* what the caller holds after a call on the instance self: the receiver
\* and, when the call returned another instance, that instance; instances
\* no longer referenced are dropped
Held(out, self) ==
  [heap |-> IF out.ret \in {0, self} THEN <<out.heap[self]>>
            ELSE <<out.heap[self], out.heap[out.ret]>>,
   ret |-> IF out.ret = 0 THEN 0 ELSE IF out.ret = self THEN 1 ELSE 2,
   error |-> out.error]

\* the record of a call and of what it returned or threw
Called(op, self, out) ==
  [NoCall EXCEPT !.op = op, !.self = self, !.at = now, !.ret = out.ret,
                 !.error = out.error]

\* the record of a call on the instance whose schema was p
CalledOn(op, p, out) ==
  [Called(op, 1, out) EXCEPT !.input = Some(p)]

Entity_create ==
  /\ \E input \in EntityCreateInputs :
       LET res == Product_create(1, input.name, input.description,
                                 input.price, input.stock, input.sku,
                                 input.categoryId, now)
           out == IF res.ok THEN new_Product(<<>>, Get(res.value))
                  ELSE Thrown(heap, res.error)
       IN /\ heap' = out.heap
          /\ call' = [Called("create", 0, out) EXCEPT !.input = Some(input)]
  /\ UNCHANGED <<store, now, nextId, reqs>>

Entity_createFromPersistence ==
  /\ \E schema \in PersistedSchemas :
       LET out == new_Product(<<>>, schema)
       IN /\ heap' = out.heap
          /\ call' = Called("createFromPersistence", 0, out)
  /\ UNCHANGED <<store, now, nextId, reqs>>

Entity_mutate ==
  /\ \E self \in DOMAIN heap :
       \E c \in MutatorCalls :
         LET out == Held(Mutate(heap, self,
                                ApplyMutator(heap[self], c, now)), self)
         IN /\ \A i \in DOMAIN out.heap : out.heap[i].stock <= MaxStock
            /\ heap' = out.heap
            /\ call' = [CalledOn(c.op, heap[self], out)
                          EXCEPT !.text = c.text, !.num = c.num]
  /\ UNCHANGED <<store, now, nextId, reqs>>

Entity_activate ==
  /\ \E self \in DOMAIN heap :
       LET out == Held(Product_activate(heap, self, now), self)
       IN /\ heap' = out.heap
          /\ call' = CalledOn("activate", heap[self], out)
  /\ UNCHANGED <<store, now, nextId, reqs>>

Entity_deactivate ==
  /\ \E self \in DOMAIN heap :
       LET out == Held(Product_deactivate(heap, self, now), self)
       IN /\ heap' = out.heap
          /\ call' = CalledOn("deactivate", heap[self], out)
  /\ UNCHANGED <<store, now, nextId, reqs>>

Entity_query ==
  /\ \E self \in DOMAIN heap :
       \E q \in QueryCalls :
         LET out == Held(Returned(heap, 0), self)
         IN /\ heap' = out.heap
            /\ call' = [CalledOn(q.op, heap[self], out)
                          EXCEPT !.num = q.num,
                                 !.answer = Some(Answer(heap[self], q))]
  /\ UNCHANGED <<store, now, nextId, reqs>>

EntityInit ==
  /\ store = << >>
  /\ now = 0
  /\ nextId = 1
  /\ reqs = [r \in Requests |-> IdleReq]
  /\ heap = <<>>
  /\ call = NoCall

EntityNext ==
  \/ Tick
  \/ Entity_create
  \/ Entity_createFromPersistence
  \/ Entity_mutate
  \/ Entity_activate
  \/ Entity_deactivate
  \/ Entity_query

EntitySpec == EntityInit /\ [][EntityNext]_vars

----------------------------------------------------------------------------
(* Price value object: amounts are whole cents; a number handed to         *)
(* Price.create is a fraction n/d of a cent, d = 0 standing for a number   *)
(* that is not finite                                                      *)

MaxCents == 6

Number(n, d) == [n |-> n, d |-> d]

SUPPORTED_CURRENCIES ==
  {<<"U", "S", "D">>, <<"E", "U", "R">>, <<"G", "B", "P">>,
   <<"M", "X", "N">>, <<"C", "A", "D">>, <<"A", "U", "D">>}

\* a number n/d >= 0 of cents rounded to whole cents by Math.round
roundToDecimals(n, d) == (2 * n + d) \div (2 * d)

\* x < 0 for the number x = n/d (-Infinity when d = 0 and n < 0)
IsNegative(x) == IF x.d >= 0 THEN x.n < 0 ELSE x.n > 0

\* new Price(schema)
new_Price(h, schema) == Returned(Append(h, schema), Len(h) + 1)

\* create without the check of the sign
Price_create_unchecked(h, amount, currency) ==
  LET normalizedCurrency == toUpperCase(currency)
  IN IF normalizedCurrency \notin SUPPORTED_CURRENCIES
     THEN Thrown(h, Err("Error", "Invalid currency"))
     ELSE IF amount.d = 0
     THEN Thrown(h, Err("Error", "Price amount must be a valid number"))
     ELSE new_Price(h, [amount |-> IF amount.n >= 0
                                     THEN roundToDecimals(amount.n, amount.d)
                                     ELSE -roundToDecimals(-amount.n, amount.d),
                          currency |-> normalizedCurrency])

Price_create(h, amount, currency) ==
  LET normalizedCurrency == toUpperCase(currency)
  IN IF normalizedCurrency \notin SUPPORTED_CURRENCIES
     THEN Thrown(h, Err("Error", "Invalid currency"))
     ELSE IF IsNegative(amount)
     THEN Thrown(h, Err("Error", "Price amount cannot be negative"))
     ELSE IF amount.d = 0
     THEN Thrown(h, Err("Error", "Price amount must be a valid number"))
     ELSE new_Price(h, [amount |-> roundToDecimals(amount.n, amount.d),
                          currency |-> normalizedCurrency])

DifferentCurrencies ==
  Err("Error", "Cannot compare prices with different currencies")

Price_add(h, self, other) ==
  IF h[self].currency # h[other].currency THEN Thrown(h, DifferentCurrencies)
  ELSE Price_create(h, Number(h[self].amount + h[other].amount, 1),
                    h[self].currency)

Price_subtract(h, self, other) ==
  IF h[self].currency # h[other].currency THEN Thrown(h, DifferentCurrencies)
  ELSE IF h[self].amount - h[other].amount < 0
  THEN Thrown(h, Err("Error", "Subtraction would result in negative price"))
  ELSE Price_create(h, Number(h[self].amount - h[other].amount, 1),
                    h[self].currency)

Price_multiply(h, self, factor) ==
  IF IsNegative(factor)
  THEN Thrown(h, Err("Error", "Multiplication factor cannot be negative"))
  ELSE IF factor.d = 0
  THEN Thrown(h, Err("Error", "Multiplication factor must be a valid number"))
  ELSE Price_create(h, Number(h[self].amount * factor.n, factor.d),
                    h[self].currency)

Price_divide(h, self, divisor) ==
  IF IsNegative(divisor) \/ (divisor.n = 0 /\ divisor.d # 0)
  THEN Thrown(h, Err("Error", "Divisor must be greater than zero"))
  ELSE IF divisor.d = 0
  THEN Thrown(h, Err("Error", "Divisor must be a valid number"))
  ELSE Price_create(h, Number(h[self].amount * divisor.d, divisor.n),
                    h[self].currency)

\* percentages are whole numbers
Price_applyDiscount(h, self, percentage) ==
  IF percentage < 0 \/ percentage > 100
  THEN Thrown(h, Err("Error",
                     "Discount percentage must be between 0 and 100"))
  ELSE Price_multiply(h, self, Number(100 - percentage, 100))

Price_applyTax(h, self, percentage) ==
  IF percentage < 0
  THEN Thrown(h, Err("Error", "Tax percentage cannot be negative"))
  ELSE Price_multiply(h, self, Number(100 + percentage, 100))

Amounts == {Number(-1, 1), Number(0, 1), Number(3, 1), Number(5, 2),
            Number(1, 0)}

Currencies == {<<"u", "s", "d">>, <<"E", "U", "R">>, <<"x", "y", "z">>}

Factors == {Number(-1, 1), Number(0, 1), Number(1, 2), Number(2, 1),
            Number(1, 0)}

Percentages == {-1, 0, 50, 100, 101}

\* the two instances the caller holds after a call that made a new one
LastTwo(h) == IF Len(h) > 2 THEN SubSeq(h, Len(h) - 1, Len(h)) ELSE h

Price_Create ==
  /\ \E amount \in Amounts :
       \E currency \in Currencies :
         LET out == Price_create(heap, amount, currency)
         IN /\ heap' = LastTwo(out.heap)
            /\ call' = [Called("create", 0, out)
                          EXCEPT !.ret = IF out.ret = 0 THEN 0
                                         ELSE Len(LastTwo(out.heap)),
                                 !.input = Some([amount |-> amount,
                                                 currency |-> currency])]
  /\ UNCHANGED <<store, now, nextId, reqs>>

\* add and subtract
Price_Binary ==
  /\ \E self \in DOMAIN heap :
       \E other \in DOMAIN heap :
         \E op \in {"add", "subtract"} :
           LET out == Held(IF op = "add" THEN Price_add(heap, self, other)
                           ELSE Price_subtract(heap, self, other), self)
           IN /\ \A i \in DOMAIN out.heap : out.heap[i].amount <= MaxCents
              /\ heap' = out.heap
              /\ call' = [Called(op, 1, out)
                            EXCEPT !.input = Some([self |-> heap[self],
                                                   other |-> heap[other]])]
  /\ UNCHANGED <<store, now, nextId, reqs>>

\* multiply and divide
Price_Scale ==
  /\ \E self \in DOMAIN heap :
       \E x \in Factors :
         \E op \in {"multiply", "divide"} :
           LET out == Held(IF op = "multiply"
                           THEN Price_multiply(heap, self, x)
                           ELSE Price_divide(heap, self, x), self)
           IN /\ \A i \in DOMAIN out.heap : out.heap[i].amount <= MaxCents
              /\ heap' = out.heap
              /\ call' = [Called(op, 1, out)
                            EXCEPT !.input = Some([self |-> heap[self],
                                                   other |-> x])]
  /\ UNCHANGED <<store, now, nextId, reqs>>

\* applyDiscount and applyTax
Price_Percent ==
  /\ \E self \in DOMAIN heap :
       \E percentage \in Percentages :
         \E op \in {"applyDiscount", "applyTax"} :
           LET out == Held(IF op = "applyDiscount"
                           THEN Price_applyDiscount(heap, self, percentage)
                           ELSE Price_applyTax(heap, self, percentage), self)
           IN /\ \A i \in DOMAIN out.heap : out.heap[i].amount <= MaxCents
              /\ heap' = out.heap
              /\ call' = [Called(op, 1, out)
                            EXCEPT !.num = percentage,
                                   !.input = Some([self |-> heap[self],
                                                   other |-> heap[self]])]
  /\ UNCHANGED <<store, now, nextId, reqs>>

PriceInit == EntityInit

PriceNext ==
  \/ Price_Create
  \/ Price_Binary
  \/ Price_Scale
  \/ Price_Percent

PriceSpec == PriceInit /\ [][PriceNext]_vars

----------------------------------------------------------------------------
(* ProductCode value object: a code is a string; a number handed to        *)
(* ProductCode.generate is Number(n, d) as for Price, with Number(0, 0)    *)
(* for NaN, and fractions are halves                                       *)

MaxSequence == 2

Digits == <<"0", "1", "2", "3", "4", "5", "6", "7", "8", "9">>

IsDigit(c) == \E i \in DOMAIN Digits : Digits[i] = c

DigitValue(c) == (CHOOSE i \in DOMAIN Digits : Digits[i] = c) - 1

\* the character class [A-Z0-9]
IsAlnum(c) == IsDigit(c) \/ \E i \in DOMAIN UpperLetters : UpperLetters[i] = c

NaN == Number(0, 0)

\* x > m for the number x and the whole number m
Exceeds(x, m) == IF x.d = 0 THEN x.n > 0 ELSE x.n > m * x.d

\* x + k for the number x and the whole number k
Plus(x, k) == IF x.d = 0 THEN x ELSE Number(x.n + k * x.d, x.d)

\* Math.abs(x - y) === 1 for whole numbers or NaN
AbsDiffIsOne(x, y) ==
  /\ x.d # 0
  /\ y.d # 0
  /\ (x.n - y.n = 1 \/ y.n - x.n = 1)

RECURSIVE DigitsOf(_)
DigitsOf(n) ==
  IF n < 10 THEN <<Digits[n + 1]>>
  ELSE Append(DigitsOf(n \div 10), Digits[(n % 10) + 1])

\* Number.prototype.toString for x >= 0 or NaN
Number_toString(x) ==
  IF x.d = 0
  THEN IF x.n = 0 THEN <<"N", "a", "N">>
       ELSE <<"I", "n", "f", "i", "n", "i", "t", "y">>
  ELSE IF x.n % x.d = 0 THEN DigitsOf(x.n \div x.d)
  ELSE DigitsOf(x.n \div x.d) \o <<".", "5">>

padStart(s, len, c) ==
  IF Len(s) >= len THEN s ELSE [i \in 1..(len - Len(s)) |-> c] \o s

padEnd(s, len, c) ==
  IF Len(s) >= len THEN s ELSE s \o [i \in 1..(len - Len(s)) |-> c]

RECURSIVE split(_, _)
split(s, sep) ==
  IF \E i \in DOMAIN s : s[i] = sep
  THEN LET k == CHOOSE i \in DOMAIN s :
                  s[i] = sep /\ \A j \in 1..(i - 1) : s[j] # sep
       IN <<SubSeq(s, 1, k - 1)>> \o split(SubSeq(s, k + 1, Len(s)), sep)
  ELSE <<s>>

RECURSIVE LeadingDigits(_)
LeadingDigits(s) ==
  IF s = <<>> \/ ~IsDigit(Head(s)) THEN <<>>
  ELSE <<Head(s)>> \o LeadingDigits(Tail(s))

RECURSIVE DigitsValue(_)
DigitsValue(s) ==
  IF s = <<>> THEN 0
  ELSE 10 * DigitsValue(SubSeq(s, 1, Len(s) - 1)) + DigitValue(s[Len(s)])

\* parseInt(s, 10): leading white space is skipped, then a sign and the
\* longest run of digits are read; NaN when there is no digit
parseInt(s) ==
  LET t == trimStart(s)
      signed == t # <<>> /\ Head(t) \in {"+", "-"}
      body == IF signed THEN Tail(t) ELSE t
      run == LeadingDigits(body)
  IN IF run = <<>> THEN NaN
     ELSE IF signed /\ Head(t) = "-" THEN Number(-DigitsValue(run), 1)
     ELSE Number(DigitsValue(run), 1)

MIN_LENGTH == 7

MAX_LENGTH == 11

\* /^[A-Z0-9]{3,4}$/
PREFIX_PATTERN(s) == Len(s) \in 3..4 /\ \A i \in DOMAIN s : IsAlnum(s[i])

\* /^[A-Z0-9]{3,6}$/
SUFFIX_PATTERN(s) == Len(s) \in 3..6 /\ \A i \in DOMAIN s : IsAlnum(s[i])

\* /^[A-Z0-9]{3,4}-[A-Z0-9]{3,6}$/
CODE_PATTERN(s) ==
  \E k \in DOMAIN s :
    /\ s[k] = "-"
    /\ PREFIX_PATTERN(SubSeq(s, 1, k - 1))
    /\ SUFFIX_PATTERN(SubSeq(s, k + 1, Len(s)))

\* new ProductCode(schema)
new_ProductCode(h, schema) == Returned(Append(h, schema), Len(h) + 1)

\* create without toUpperCase
ProductCode_create_keepsCase(h, code) ==
  LET normalizedCode == trim(code)
  IN IF Len(normalizedCode) < MIN_LENGTH
     THEN Thrown(h, Err("Error", "Product code is too short"))
     ELSE IF Len(normalizedCode) > MAX_LENGTH
     THEN Thrown(h, Err("Error", "Product code is too long"))
     ELSE IF ~CODE_PATTERN(normalizedCode)
     THEN Thrown(h, Err("Error", "Invalid product code format"))
     ELSE new_ProductCode(h, [code |-> normalizedCode])

ProductCode_create(h, code) ==
  LET normalizedCode == toUpperCase(trim(code))
  IN IF Len(normalizedCode) < MIN_LENGTH
     THEN Thrown(h, Err("Error", "Product code is too short"))
     ELSE IF Len(normalizedCode) > MAX_LENGTH
     THEN Thrown(h, Err("Error", "Product code is too long"))
     ELSE IF ~CODE_PATTERN(normalizedCode)
     THEN Thrown(h, Err("Error", "Invalid product code format"))
     ELSE new_ProductCode(h, [code |-> normalizedCode])

ProductCode_createFromParts(h, prefix, suffix) ==
  LET normalizedPrefix == toUpperCase(trim(prefix))
      normalizedSuffix == toUpperCase(trim(suffix))
  IN IF ~PREFIX_PATTERN(normalizedPrefix)
     THEN Thrown(h, Err("Error", "Invalid prefix format"))
     ELSE IF ~SUFFIX_PATTERN(normalizedSuffix)
     THEN Thrown(h, Err("Error", "Invalid suffix format"))
     ELSE new_ProductCode(h, [code |-> normalizedPrefix \o <<"-">>
                                         \o normalizedSuffix])

\* category.replace(/[^A-Z0-9]/g, '') cut to 4 characters or padded
generatePrefix(category) ==
  LET sanitized == SelectSeq(category, IsAlnum)
  IN IF Len(sanitized) = 0 THEN <<"P", "R", "O", "D">>
     ELSE IF Len(sanitized) >= 4 THEN SubSeq(sanitized, 1, 4)
     ELSE padEnd(sanitized, 4, "X")

ProductCode_generate(h, category, sequence) ==
  IF IsBlank(category)
  THEN Thrown(h, Err("Error", "Category cannot be empty"))
  ELSE IF IsNegative(sequence)
  THEN Thrown(h, Err("Error", "Sequence number cannot be negative"))
  ELSE IF Exceeds(sequence, 999999)
  THEN Thrown(h, Err("Error", "Sequence number cannot exceed 999999"))
  ELSE LET normalizedCategory == toUpperCase(trim(category))
           prefix == generatePrefix(normalizedCategory)
           suffix == padStart(Number_toString(sequence), 6, "0")
       IN ProductCode_createFromParts(h, prefix, suffix)

\* the getters take the schema of the instance; every code made by create,
\* createFromParts and generate has exactly one hyphen
ProductCode_getPrefix(c) == split(c.code, "-")[1]

ProductCode_getSuffix(c) == split(c.code, "-")[2]

ProductCode_getSequence(c) == parseInt(ProductCode_getSuffix(c))

ProductCode_equals(c, other) == c.code = other.code

ProductCode_toString(c) == c.code

ProductCode_belongsToCategory(c, category) ==
  LET normalizedCategory == toUpperCase(trim(category))
      categoryPrefix == generatePrefix(normalizedCategory)
  IN ProductCode_getPrefix(c) = categoryPrefix

ProductCode_isSequential(c, other) ==
  IF ProductCode_getPrefix(c) # ProductCode_getPrefix(other) THEN FALSE
  ELSE AbsDiffIsOne(ProductCode_getSequence(c),
                    ProductCode_getSequence(other))

ProductCode_next(h, self) ==
  LET currentSequence == ProductCode_getSequence(h[self])
  IN ProductCode_generate(h, ProductCode_getPrefix(h[self]),
                          Plus(currentSequence, 1))

ProductCode_previous(h, self) ==
  LET currentSequence == ProductCode_getSequence(h[self])
  IN IF currentSequence = Number(0, 1)
     THEN Thrown(h, Err("Error", "Cannot get previous code for sequence 0"))
     ELSE ProductCode_generate(h, ProductCode_getPrefix(h[self]),
                               Plus(currentSequence, -1))

CodeInputs ==
  {<<"l", "a", "p", "-", "h", "p", "0", "0", "1">>,
   <<" ", "a", "b", "1", "-", "0", "0", "1", " ">>,
   <<"a", "b", "c", "d", "-", "9", "9", "9", "9", "9", "9">>,
   <<"A", "B", "C", "-", "0", "0", "0", "0", "0", "0">>,
   <<"a", "b", "c", "-", "9", "9", "9", "9", "9", "8">>,
   <<"a", "b", "c", "d", "-", "0", "0", "1">>,
   <<"a", "b", "-", "0", "0", "0", "0", "1">>,
   <<"a", "b", "c", "d", "e", "-", "0", "0", "0", "0", "0", "1">>,
   <<"a", "b", "c", "_", "0", "0", "0", "1">>,
   <<"a", "b", "c", "-", "0", "0", "-", "1">>,
   <<>>,
   <<"L", "A", "P", "-", "H", "p", " ", "0", "1">>}

PartInputs ==
  {[prefix |-> p, suffix |-> s] :
     p \in {<<"l", "a", "p">>,
            <<"a", "b">>,
            <<" ", "a", "b", "c", "d", " ">>},
     s \in {<<"0", "0", "1">>,
            <<"h", "p", "0", "0", "1">>,
            <<"0", "1">>}}

Categories ==
  {<<"e", "l", "e", "c", "t", "r", "o", "n", "i", "c", "s">>,
   <<>>,
   <<" ">>,
   <<"a", "-", "b">>,
   <<"-", "-">>}

Sequences ==
  {Number(-1, 1), Number(0, 1), Number(7, 1), Number(3, 2),
   Number(999999, 1), Number(1000000, 1), NaN}

\* the sequences next() and previous() are followed to: those within
\* MaxSequence of either end of 0..999999
InWindow(x) ==
  x.d # 0 /\ (x.n <= MaxSequence \/ x.n >= 999999 - MaxSequence)

\* what the caller holds after a static factory call: the new code
Made(out) ==
  IF out.ret = 0 THEN out
  ELSE Returned(<<out.heap[out.ret]>>, 1)

Code_Create ==
  /\ \E code \in CodeInputs :
       LET out == Made(ProductCode_create(heap, code))
       IN /\ heap' = out.heap
          /\ call' = [Called("create", 0, out) EXCEPT !.text = code]
  /\ UNCHANGED <<store, now, nextId, reqs>>

Code_CreateFromParts ==
  /\ \E parts \in PartInputs :
       LET out == Made(ProductCode_createFromParts(heap, parts.prefix,
                                                   parts.suffix))
       IN /\ heap' = out.heap
          /\ call' = [Called("createFromParts", 0, out)
                        EXCEPT !.input = Some(parts)]
  /\ UNCHANGED <<store, now, nextId, reqs>>

Code_Generate ==
  /\ \E category \in Categories :
       \E sequence \in Sequences :
         LET out == Made(ProductCode_generate(heap, category, sequence))
         IN /\ heap' = out.heap
            /\ call' = [Called("generate", 0, out)
                          EXCEPT !.text = category,
                                 !.input = Some(sequence)]
  /\ UNCHANGED <<store, now, nextId, reqs>>

\* next and previous
Code_Step ==
  /\ \E self \in DOMAIN heap :
       \E op \in {"next", "previous"} :
         LET out == Held(IF op = "next" THEN ProductCode_next(heap, self)
                         ELSE ProductCode_previous(heap, self), self)
         IN /\ out.ret # 0
              => InWindow(ProductCode_getSequence(out.heap[out.ret]))
            /\ heap' = out.heap
            /\ call' = CalledOn(op, heap[self], out)
  /\ UNCHANGED <<store, now, nextId, reqs>>

CodeQueries ==
  {[op |-> op, text |-> <<>>] :
     op \in {"getPrefix", "getSuffix", "getSequence", "toString"}}
    \cup {[op |-> "belongsToCategory", text |-> c] : c \in Categories}

CodeAnswer(c, q) ==
  CASE q.op = "getPrefix" -> ProductCode_getPrefix(c)
    [] q.op = "getSuffix" -> ProductCode_getSuffix(c)
    [] q.op = "getSequence" -> ProductCode_getSequence(c)
    [] q.op = "toString" -> ProductCode_toString(c)
    [] q.op = "belongsToCategory" -> ProductCode_belongsToCategory(c, q.text)

Code_Query ==
  /\ \E self \in DOMAIN heap :
       \E q \in CodeQueries :
         LET out == Held(Returned(heap, 0), self)
         IN /\ heap' = out.heap
            /\ call' = [CalledOn(q.op, heap[self], out)
                          EXCEPT !.text = q.text,
                                 !.answer = Some(CodeAnswer(heap[self], q))]
  /\ UNCHANGED <<store, now, nextId, reqs>>

\* isSequential and equals
Code_Compare ==
  /\ \E self \in DOMAIN heap :
       \E other \in DOMAIN heap :
         \E op \in {"isSequential", "equals"} :
           /\ heap' = heap
           /\ call' = [Called(op, self, Returned(heap, 0))
                         EXCEPT !.input = Some([self |-> heap[self],
                                                other |-> heap[other]]),
                                !.answer =
                                  Some(IF op = "equals"
                                       THEN ProductCode_equals(heap[self],
                                                               heap[other])
                                       ELSE ProductCode_isSequential(
                                              heap[self], heap[other]))]
  /\ UNCHANGED <<store, now, nextId, reqs>>

CodeInit == EntityInit

CodeNext ==
  \/ Code_Create
  \/ Code_CreateFromParts
  \/ Code_Generate
  \/ Code_Step
  \/ Code_Query
  \/ Code_Compare

CodeSpec == CodeInit /\ [][CodeNext]_vars

----------------------------------------------------------------------------
(* NestConfigEnvironmentService: the ConfigService it reads is a record of *)
(* the variables NODE_ENV and PORT, each a string or unset                 *)

\* configService.get<string>(key)
ConfigService_get(config, key) ==
  IF key = "NODE_ENV" THEN config.NODE_ENV ELSE config.PORT

\* getNodeEnv with ?? in place of ||
getNodeEnv_nullish(config) ==
  LET value == ConfigService_get(config, "NODE_ENV")
  IN IF IsSome(value) THEN Get(value) ELSE <<"d", "e", "v", "e", "l", "o", "p", "m", "e", "n", "t">>

\* value || 'development': undefined and '' are falsy
getNodeEnv(config) ==
  LET value == ConfigService_get(config, "NODE_ENV")
  IN IF IsSome(value) /\ Get(value) # <<>> THEN Get(value)
     ELSE <<"d", "e", "v", "e", "l", "o", "p", "m", "e", "n", "t">>

getPort(config) ==
  LET port == ConfigService_get(config, "PORT")
  IN IF IsSome(port) /\ Get(port) # <<>> THEN parseInt(Get(port))
     ELSE Number(3000, 1)

isDevelopment(config) == getNodeEnv(config) = <<"d", "e", "v", "e", "l", "o", "p", "m", "e", "n", "t">>

isProduction(config) == getNodeEnv(config) = <<"p", "r", "o", "d", "u", "c", "t", "i", "o", "n">>

isTest(config) == getNodeEnv(config) = <<"t", "e", "s", "t">>

NodeEnvs ==
  {None, Some(<<>>), Some(<<"d", "e", "v", "e", "l", "o", "p", "m", "e", "n", "t">>),
   Some(<<"p", "r", "o", "d", "u", "c", "t", "i", "o", "n">>), Some(<<"t", "e", "s", "t">>),
   Some(<<"s", "t", "a", "g", "i", "n", "g">>), Some(<<"P", "r", "o", "d", "u", "c", "t", "i", "o", "n">>),
   Some(<<"t", "e", "s", "t", " ">>)}

Ports == {None, Some(<<>>), Some(<<"4", "0", "0", "0">>),
          Some(<<"8", "0", " ">>), Some(<<"a", "b", "c">>)}

Configs == {[NODE_ENV |-> e, PORT |-> p] : e \in NodeEnvs, p \in Ports}

\* the record of a call on the service and of its answer
Asked(op, answer) ==
  [NoCall EXCEPT !.op = op, !.self = 1, !.answer = Some(answer)]

Env_getNodeEnv ==
  /\ call' = Asked("getNodeEnv", getNodeEnv(heap[1]))
  /\ UNCHANGED <<store, now, nextId, reqs, heap>>

Env_getPort ==
  /\ call' = Asked("getPort", getPort(heap[1]))
  /\ UNCHANGED <<store, now, nextId, reqs, heap>>

Env_isDevelopment ==
  /\ call' = Asked("isDevelopment", isDevelopment(heap[1]))
  /\ UNCHANGED <<store, now, nextId, reqs, heap>>

Env_isProduction ==
  /\ call' = Asked("isProduction", isProduction(heap[1]))
  /\ UNCHANGED <<store, now, nextId, reqs, heap>>

Env_isTest ==
  /\ call' = Asked("isTest", isTest(heap[1]))
  /\ UNCHANGED <<store, now, nextId, reqs, heap>>

\* the service is constructed with one ConfigService
EnvInit ==
  /\ store = << >>
  /\ now = 0
  /\ nextId = 1
  /\ reqs = [r \in Requests |-> IdleReq]
  /\ heap \in {<<config>> : config \in Configs}
  /\ call = NoCall

EnvNext ==
  \/ Env_getNodeEnv
  \/ Env_getPort
  \/ Env_isDevelopment
  \/ Env_isProduction
  \/ Env_isTest

EnvSpec == EnvInit /\ [][EnvNext]_vars

----------------------------------------------------------------------------
(* ProductRepository.findAll and GetProductsUseCase *)

\* the characters of the model in the order of their codes
CharOrder == <<" ", "A", "B", "a", "b", "c", "d", "e", "k", "m", "n">>

Code(c) == CHOOSE i \in DOMAIN CharOrder : CharOrder[i] = c

\* a <= b for strings
RECURSIVE StringLeq(_, _)
StringLeq(a, b) ==
  IF a = <<>> THEN TRUE
  ELSE IF b = <<>> THEN FALSE
  ELSE IF Head(a) # Head(b) THEN Code(Head(a)) < Code(Head(b))
  ELSE StringLeq(Tail(a), Tail(b))

\* text ILIKE '%pattern%'
ILike(text, pattern) ==
  \E i \in 0..(Len(text) - Len(pattern)) :
    toUpperCase(SubSeq(text, i + 1, i + Len(pattern))) = toUpperCase(pattern)

\* if (filters.x): the value is given and is not the empty string
Truthy(o) == IsSome(o) /\ Get(o) # <<>>

\* filters.n || d
OrDefault(o, d) == IF IsSome(o) /\ Get(o) # 0 THEN Get(o) ELSE d

\* the WHERE clause in which inStock = false is taken for no filter
Where_inStockTruthy(row, filters) ==
  /\ Truthy(filters.search)
       => \/ ILike(row.name, Get(filters.search))
          \/ ILike(row.description, Get(filters.search))
          \/ ILike(row.sku, Get(filters.search))
  /\ Truthy(filters.categoryId) => row.categoryId = Get(filters.categoryId)
  /\ IsSome(filters.minPrice) => row.price >= Get(filters.minPrice)
  /\ IsSome(filters.maxPrice) => row.price <= Get(filters.maxPrice)
  /\ IsSome(filters.isActive) => row.isActive = Get(filters.isActive)
  /\ filters.inStock = Some(TRUE) => row.stock > 0

\* the WHERE clause that findAll builds from the filters
Where(row, filters) ==
  /\ Truthy(filters.search)
       => \/ ILike(row.name, Get(filters.search))
          \/ ILike(row.description, Get(filters.search))
          \/ ILike(row.sku, Get(filters.search))
  /\ Truthy(filters.categoryId) => row.categoryId = Get(filters.categoryId)
  /\ IsSome(filters.minPrice) => row.price >= Get(filters.minPrice)
  /\ IsSome(filters.maxPrice) => row.price <= Get(filters.maxPrice)
  /\ IsSome(filters.isActive) => row.isActive = Get(filters.isActive)
  /\ filters.inStock = Some(TRUE) => row.stock > 0
  /\ filters.inStock = Some(FALSE) => row.stock = 0

\* a does not come after b under ORDER BY product.<sortBy> ASC
ColumnLeq(a, b, sortBy) ==
  CASE sortBy = "name" -> StringLeq(a.name, b.name)
    [] sortBy = "price" -> a.price <= b.price
    [] sortBy = "stock" -> a.stock <= b.stock
    [] sortBy = "createdAt" -> a.createdAt <= b.createdAt

\* the orders in which the table may return the rows ids under ORDER BY:
\* rows that are equal in the sort column come in any order
OrderBy(s, ids, sortBy, sortOrder) ==
  {o \in [1..Cardinality(ids) -> ids] :
     /\ \A i, j \in DOMAIN o : i # j => o[i] # o[j]
     /\ \A i, j \in DOMAIN o :
          i < j => IF sortOrder = "ASC"
                   THEN ColumnLeq(s[o[i]], s[o[j]], sortBy)
                   ELSE ColumnLeq(s[o[j]], s[o[i]], sortBy)}

\* Math.ceil(a / b) for b > 0
Ceil(a, b) == (a + b - 1) \div b

Min2(a, b) == IF a < b THEN a ELSE b

\* ProductRepository.toDTO
toDTO(row) == mapToDTO(row)

\* the results findAll may return: one for each order the table may use
findAll(s, filters) ==
  LET ids == {i \in DOMAIN s : Where(s[i], filters)}
      sortBy == IF IsSome(filters.sortBy) THEN Get(filters.sortBy)
                ELSE "createdAt"
      sortOrder == IF IsSome(filters.sortOrder) THEN Get(filters.sortOrder)
                   ELSE "DESC"
      page == OrDefault(filters.page, 1)
      pageSize == OrDefault(filters.pageSize, 10)
      skip == (page - 1) * pageSize
      total == Cardinality(ids)
  IN {RepoResult(
        TRUE, s,
        Some([data |-> [k \in 1..(Min2(total, skip + pageSize) - Min2(total, skip))
                          |-> toDTO(s[o[skip + k]])],
              meta |-> [page |-> page,
                        pageSize |-> pageSize,
                        totalItems |-> total,
                        totalPages |-> Ceil(total, pageSize),
                        hasNextPage |-> page < Ceil(total, pageSize),
                        hasPreviousPage |-> page > 1]]),
        NoError) : o \in OrderBy(s, ids, sortBy, sortOrder)}

NoFilters ==
  [search |-> None, categoryId |-> None, minPrice |-> None,
   maxPrice |-> None, isActive |-> None, inStock |-> None, page |-> None,
   pageSize |-> None, sortBy |-> None, sortOrder |-> None]

\* every combination of the filters on a column
ColumnFilters ==
  {[NoFilters EXCEPT !.categoryId = c, !.minPrice = lo, !.maxPrice = hi,
                     !.isActive = a, !.inStock = st] :
     c \in Optional({<<>>, <<"c">>}), lo \in Optional({0, 500}),
     hi \in Optional({0, 500}), a \in Optional(BOOLEAN),
     st \in Optional(BOOLEAN)}

SearchFilters ==
  {[NoFilters EXCEPT !.search = q, !.inStock = st] :
     q \in Optional({<<>>, <<"a">>, <<"N">>}), st \in Optional({TRUE})}

\* every sort column and direction
SortFilters ==
  {[NoFilters EXCEPT !.sortBy = by, !.sortOrder = ord] :
     by \in Optional({"name", "price", "stock", "createdAt"}),
     ord \in Optional({"ASC", "DESC"})}

\* every page and page size, alone, with a filter and with a sort column
PageFilters ==
  {[NoFilters EXCEPT !.page = pg, !.pageSize = sz, !.inStock = st,
                     !.sortBy = by] :
     pg \in Optional({0, 1, 2}), sz \in Optional({1, 2}),
     st \in Optional({TRUE}), by \in Optional({"price"})}

FiltersInputs ==
  ColumnFilters \cup SearchFilters \cup SortFilters \cup PageFilters

QueryRow(id, name, price, stock, sku, categoryId, t) ==
  [id |-> id, name |-> name, description |-> <<"d">>, price |-> price,
   stock |-> stock, sku |-> sku, categoryId |-> categoryId,
   isActive |-> TRUE, createdAt |-> t, updatedAt |-> t]

\* three products as CreateProduct leaves them: one free and out of stock,
\* two created at the same time, two of one category
QueryRows ==
  <<QueryRow(1, <<"n">>, 0, 0, <<"A">>, <<"c">>, 0),
    QueryRow(2, <<"m">>, 500, 2, <<"B">>, <<"c">>, 0),
    QueryRow(3, <<"n">>, 700, 11, <<"A", "B">>, <<"k">>, 1)>>

QueryStores == {[i \in S |-> QueryRows[i]] : S \in SUBSET DOMAIN QueryRows}

(* GetProductsUseCase.execute *)

GetProducts ==
  /\ \E filters \in FiltersInputs :
       \E found \in findAll(store, filters) :
         /\ store' = found.store
         /\ call' = [NoCall EXCEPT !.op = "findAll", !.at = now,
                                   !.input = Some(filters),
                                   !.answer = found.value,
                                   !.error = found.error]
  /\ UNCHANGED <<now, nextId, reqs, heap>>

QueryInit ==
  /\ store \in QueryStores
  /\ now = MaxTime
  /\ nextId = Cardinality(DOMAIN store) + 1
  /\ reqs = [r \in Requests |-> IdleReq]
  /\ heap = <<>>
  /\ call = NoCall

QueryNext == GetProducts

QuerySpec == QueryInit /\ [][QueryNext]_vars

----------------------------------------------------------------------------
(* ProductController: the HTTP status a use case outcome is answered with *)

\* an error that no catch branch of the handler maps is rethrown and
\* answered by the framework with 500
Controller_status(op, error) ==
  IF error = NoError
  THEN CASE op = "CreateProduct" -> 201
         [] op = "DeleteProduct" -> 204
         [] OTHER -> 200
  ELSE CASE op = "CreateProduct" ->
              IF error.kind = "DuplicateProductCodeError" THEN 409
              ELSE IF error.kind = "InvalidProductDataError" THEN 400
              ELSE 500
         [] op = "UpdateProduct" ->
              IF error.kind = "ProductNotFoundError" THEN 404
              ELSE IF error.kind = "InvalidProductDataError" THEN 400
              ELSE 500
         [] op = "UpdateStock" ->
              IF error.kind = "ProductNotFoundError" THEN 404
              ELSE IF error.kind \in {"InvalidProductDataError",
                                      "InsufficientStockError",
                                      "ProductNotAvailableError"} THEN 400
              ELSE 500
         [] OTHER ->
              IF error.kind = "ProductNotFoundError" THEN 404 ELSE 500

----------------------------------------------------------------------------
(* Properties *)

Done(r, op) == reqs[r].pc = "done" /\ reqs[r].op = op

Succeeded(r, op) == Done(r, op) /\ reqs[r].error = NoError

Failed(r, op) == Done(r, op) /\ reqs[r].error # NoError

\* the step is the first step of an invocation of op by r
Starts(r, op) == reqs[r].pc = "idle" /\ reqs'[r].op = op

\* the step is the last step of an invocation of op by r
Ends(r, op) == reqs[r].pc # "done" /\ reqs'[r].pc = "done" /\ reqs'[r].op = op

\* C1: every persisted product has stock >= 0, whatever the interleaving of
\* the use cases.
C1_StockNonNegative == \A i \in DOMAIN store : store[i].stock >= 0

\* two decrements of one product raced, both succeeded, and together they
\* asked for more than the stock either of them read
C1_Witness ==
  /\ Succeeded("r1", "UpdateStock") /\ Succeeded("r2", "UpdateStock")
  /\ ~reqs["r1"].solo /\ ~reqs["r2"].solo
  /\ reqs["r1"].input.productId = reqs["r2"].input.productId
  /\ reqs["r1"].input.operation = "decrement"
  /\ reqs["r2"].input.operation = "decrement"
  /\ reqs["r1"].snap = reqs["r2"].snap
  /\ reqs["r1"].input.quantity + reqs["r2"].input.quantity
       > Get(reqs["r1"].snap).stock
  /\ reqs["r1"].input.productId \in DOMAIN store

\* both requests ran CreateProduct up to repository.create
BothReachedCreate ==
  \A r \in Requests :
    Done(r, "CreateProduct") /\ reqs[r].calls = <<"existsBySku", "create">>

\* C2: no two persisted products have the same SKU; when two CreateProduct
\* invocations with the same SKU both pass existsBySku, at most one persists
\* and the other fails at the unique constraint of the table.
C2_UniqueSku ==
  /\ \A i, j \in DOMAIN store : i # j => store[i].sku # store[j].sku
  /\ (BothReachedCreate
        /\ Get(reqs["r1"].pending).sku = Get(reqs["r2"].pending).sku)
       => \E r, q \in Requests :
            /\ r # q
            /\ reqs[r].error.kind \in {"none", "QueryFailedError"}
            /\ reqs[q].error.kind = "QueryFailedError"

C2_Witness ==
  /\ BothReachedCreate
  /\ Get(reqs["r1"].pending).sku = Get(reqs["r2"].pending).sku
  /\ reqs["r1"].input.sku # reqs["r2"].input.sku
  /\ reqs["r2"].error.kind = "QueryFailedError"
  /\ \E i \in DOMAIN store : store[i].sku = Get(reqs["r1"].pending).sku

\* C3: CreateProduct with a SKU that, compared case-insensitively, is the
\* SKU of a persisted product fails with DuplicateProductCode in its first
\* step: no entity is constructed, repository.create is not called and the
\* store is unchanged.
C3_DuplicateSkuRejected ==
  [][\A r \in Requests :
       (/\ Starts(r, "CreateProduct")
        /\ \E i \in DOMAIN store :
             toUpperCase(store[i].sku) = toUpperCase(reqs'[r].input.sku))
       => /\ reqs'[r].pc = "done"
          /\ reqs'[r].error.kind = "DuplicateProductCodeError"
          /\ reqs'[r].pending = None
          /\ reqs'[r].calls = <<"existsBySku">>
          /\ nextId' = nextId
          /\ store' = store]_vars

\* a lower-case SKU was rejected against the upper-case SKU in the store
C3_Witness ==
  \E r \in Requests :
    /\ Failed(r, "CreateProduct")
    /\ reqs[r].error.kind = "DuplicateProductCodeError"
    /\ reqs[r].input.sku = <<"a">>
    /\ \E i \in DOMAIN store : store[i].sku = <<"A">>

ExpectedStock(S, input) ==
  IF input.operation = "increment" THEN S + input.quantity
  ELSE S - input.quantity

\* C4: a non-interleaved UpdateStock with quantity q > 0 on an existing
\* product with stock S goes on to repository.updateStock (when the operation
\* is increment, or decrement with q <= S), and then persists and returns
\* S + q or S - q; only stock and updatedAt of that product change.
C4_UpdateStockResult ==
  [][\A r \in Requests :
       /\ (/\ Starts(r, "UpdateStock")
           /\ reqs'[r].input.productId \in DOMAIN store
           /\ reqs'[r].input.quantity > 0
           /\ \/ reqs'[r].input.operation = "increment"
              \/ reqs'[r].input.quantity
                   <= store[reqs'[r].input.productId].stock)
          => reqs'[r].pc = "updateStock"
       /\ (reqs[r].pc = "updateStock" /\ Ends(r, "UpdateStock")
             /\ reqs[r].solo)
          => LET id == reqs[r].input.productId
                 expected == ExpectedStock(store[id].stock, reqs[r].input)
             IN /\ reqs'[r].error = NoError
                /\ DOMAIN store' = DOMAIN store
                /\ \A i \in DOMAIN store \ {id} : store'[i] = store[i]
                /\ store'[id] =
                     [store[id] EXCEPT !.stock = expected,
                                       !.updatedAt = store'[id].updatedAt]
                /\ reqs'[r].result = Some(mapToDTO(store'[id]))
                /\ Get(reqs'[r].result).stock = expected]_vars

\* a decrement ran alone against a table of two products
C4_Witness ==
  \E r \in Requests :
    /\ Succeeded(r, "UpdateStock")
    /\ reqs[r].solo
    /\ reqs[r].input.operation = "decrement"
    /\ Get(reqs[r].result).stock
         = Get(reqs[r].snap).stock - reqs[r].input.quantity
    /\ Cardinality(DOMAIN store) = 2

\* C5: a decrement by more than the stock fails with an error of kind
\* InsufficientStock, which reaches the caller of UpdateStock.
C5_InsufficientStockKind ==
  \A r \in Requests :
    (/\ Done(r, "UpdateStock")
     /\ IsSome(reqs[r].snap)
     /\ reqs[r].input.operation = "decrement"
     /\ reqs[r].input.quantity > Get(reqs[r].snap).stock)
    => reqs[r].error.kind = "InsufficientStockError"

\* the input of UpdateStock is one of its three failing cases
UpdateStockMustFail(s, input) ==
  \/ input.productId \notin DOMAIN s
  \/ input.quantity <= 0
  \/ /\ input.operation = "decrement"
     /\ input.quantity > s[input.productId].stock

\* C6: an UpdateStock on a missing product, with quantity <= 0, or with a
\* decrement above the available stock ends in an error in its first step,
\* without calling repository.updateStock and with the store unchanged.
C6_FailedUpdateStockWritesNothing ==
  [][\A r \in Requests :
       (Starts(r, "UpdateStock") /\ UpdateStockMustFail(store, reqs'[r].input))
       => /\ reqs'[r].pc = "done"
          /\ reqs'[r].error # NoError
          /\ reqs'[r].calls = <<"findById">>
          /\ store' = store]_vars

C6_Witness ==
  \E r \in Requests :
    /\ Failed(r, "UpdateStock")
    /\ IsSome(reqs[r].snap)
    /\ reqs[r].input.operation = "decrement"
    /\ reqs[r].input.quantity > Get(reqs[r].snap).stock
    /\ reqs[r].calls = <<"findById">>
    /\ reqs[r].input.productId \in DOMAIN store
    /\ store[reqs[r].input.productId].stock = Get(reqs[r].snap).stock

\* C7: UpdateStock fails with ProductNotFound when the product is absent,
\* whatever the quantity; for an existing product a quantity <= 0 fails with
\* InvalidProductData; only otherwise is the increment or decrement applied.
C7_UpdateStockCheckOrder ==
  \A r \in Requests :
    Done(r, "UpdateStock") =>
      /\ ~IsSome(reqs[r].snap) => reqs[r].error = ProductNotFoundError(reqs[r].input.productId)
      /\ (IsSome(reqs[r].snap) /\ reqs[r].input.quantity <= 0)
           => /\ reqs[r].error.kind = "InvalidProductDataError"
              /\ reqs[r].pending = None
      /\ IsSome(reqs[r].pending)
           => IsSome(reqs[r].snap) /\ reqs[r].input.quantity > 0

C7_Witness ==
  \E r \in Requests :
    /\ Failed(r, "UpdateStock")
    /\ ~IsSome(reqs[r].snap)
    /\ reqs[r].input.quantity <= 0
    /\ reqs[r].error.kind = "ProductNotFoundError"

Applied(field, data, old, new) ==
  IF IsSome(data[field]) THEN new ELSE old

\* C8: a non-interleaved UpdateProduct sets name, description, price, stock
\* and categoryId to the input's value where the input has one and keeps
\* them otherwise; id, sku and createdAt are not changed.
C8_PartialUpdate ==
  [][\A r \in Requests :
       (reqs[r].pc = "update" /\ Ends(r, "UpdateProduct") /\ reqs[r].solo)
       => LET id == reqs[r].input.id
              data == reqs[r].input.data
              old == store[id]
              new == store'[id]
          IN /\ reqs'[r].error = NoError
             /\ new.name = Applied("name", data, old.name, trim(Get(data.name)))
             /\ new.description =
                  Applied("description", data, old.description,
                          trim(Get(data.description)))
             /\ new.price = Applied("price", data, old.price, Get(data.price))
             /\ new.stock = Applied("stock", data, old.stock, Get(data.stock))
             /\ new.categoryId =
                  Applied("categoryId", data, old.categoryId,
                          trim(Get(data.categoryId)))
             /\ new.id = old.id
             /\ new.sku = old.sku
             /\ new.createdAt = old.createdAt
             /\ reqs'[r].result = Some(mapToDTO(new))]_vars

\* an update of the name alone changed the name and kept the price
C8_Witness ==
  \E r \in Requests :
    /\ Succeeded(r, "UpdateProduct")
    /\ reqs[r].solo
    /\ IsSome(reqs[r].input.data.name)
    /\ ~IsSome(reqs[r].input.data.price)
    /\ Get(reqs[r].result).name = <<"m">>
    /\ Get(reqs[r].result).name # Get(reqs[r].snap).name
    /\ Get(reqs[r].result).price = Get(reqs[r].snap).price

\* C9: after a successful UpdateProduct whose input carries isActive = b the
\* returned (persisted) product has isActive = b.
C9_IsActiveApplied ==
  \A r \in Requests :
    (Succeeded(r, "UpdateProduct") /\ IsSome(reqs[r].input.data.isActive))
    => Get(reqs[r].result).isActive = Get(reqs[r].input.data.isActive)

UseCases == {"CreateProduct", "UpdateProduct", "UpdateStock", "DeleteProduct"}

\* C10: the store changes only in a step that completes a use case without
\* error, and the step in which a use case ends in an error leaves the
\* store as it was.
C10_AllOrNothing ==
  [][/\ store' # store
        => \E r \in Requests :
             \E op \in UseCases : Ends(r, op) /\ reqs'[r].error = NoError
     /\ \A r \in Requests :
          \A op \in UseCases :
            (Ends(r, op) /\ reqs'[r].error # NoError) => store' = store]_vars

\* an UpdateProduct with a valid name and a negative price failed and the
\* persisted name is still the one it read
C10_Witness ==
  \E r \in Requests :
    /\ Failed(r, "UpdateProduct")
    /\ reqs[r].solo
    /\ reqs[r].input.data.name = Some(<<" ", "m">>)
    /\ reqs[r].input.data.price = Some(-1)
    /\ reqs[r].input.id \in DOMAIN store
    /\ store[reqs[r].input.id] = Get(reqs[r].snap)

\* the product id an invocation addresses
TargetId(req) ==
  CASE req.op \in {"GetProductById", "DeleteProduct"} -> req.input
    [] req.op = "UpdateProduct" -> req.input.id
    [] req.op = "UpdateStock" -> req.input.productId

ByIdUseCases == {"GetProductById", "UpdateProduct", "UpdateStock",
                 "DeleteProduct"}

\* C11: DeleteProduct on an absent id fails with ProductNotFound after
\* findById alone (repository delete is never called) and leaves the store
\* as it was; a successful DeleteProduct removes exactly the row of its id
\* and leaves every other row unchanged; every GetProductById,
\* UpdateProduct, UpdateStock or DeleteProduct that starts on that id after
\* the delete has succeeded fails with ProductNotFound.
C11_DeleteProduct ==
  [][\A r \in Requests :
       /\ (Starts(r, "DeleteProduct") /\ reqs'[r].input \notin DOMAIN store)
            => /\ reqs'[r].pc = "done"
               /\ reqs'[r].error = ProductNotFoundError(reqs'[r].input)
               /\ reqs'[r].calls = <<"findById">>
               /\ store' = store
       /\ (Ends(r, "DeleteProduct") /\ reqs'[r].error = NoError)
            => /\ DOMAIN store' = DOMAIN store \ {reqs[r].input}
               /\ \A i \in DOMAIN store' : store'[i] = store[i]
               /\ reqs'[r].calls = <<"findById", "delete">>
       /\ \A q \in Requests \ {r} :
            \A op \in ByIdUseCases :
              (/\ Succeeded(r, "DeleteProduct")
               /\ Starts(q, op)
               /\ TargetId(reqs'[q]) = reqs[r].input)
              => /\ reqs'[q].pc = "done"
                 /\ reqs'[q].error.kind = "ProductNotFoundError"
                 /\ store' = store]_vars

\* one of two products was deleted, the other row is still there, and an
\* UpdateStock that followed on the deleted id failed with ProductNotFound
C11_Witness ==
  \E r \in Requests :
    \E q \in Requests \ {r} :
      /\ Succeeded(r, "DeleteProduct")
      /\ reqs[r].calls = <<"findById", "delete">>
      /\ Failed(q, "UpdateStock")
      /\ reqs[q].input.productId = reqs[r].input
      /\ reqs[q].error.kind = "ProductNotFoundError"
      /\ reqs[r].input \notin DOMAIN store
      /\ DOMAIN store # {}

C19_UnguardedStockWrite ==
  [][\A r \in Requests :
       (/\ reqs[r].pc = "updateStock"
        /\ Ends(r, "UpdateStock")
        /\ reqs[r].input.productId \in DOMAIN store)
       => LET id == reqs[r].input.productId
              mine == ExpectedStock(Get(reqs[r].snap).stock, reqs[r].input)
          IN /\ reqs'[r].error = NoError
             /\ store'[id].stock = mine
             /\ Get(reqs'[r].result).stock = mine]_vars

\* two decrements of 2 read the stock 2 of one product, both succeeded, and
\* the persisted stock is 0: one of the two decrements is lost
C19_Witness ==
  /\ Succeeded("r1", "UpdateStock") /\ Succeeded("r2", "UpdateStock")
  /\ reqs["r1"].input = reqs["r2"].input
  /\ reqs["r1"].input.operation = "decrement"
  /\ reqs["r1"].input.quantity = 2
  /\ reqs["r1"].snap = reqs["r2"].snap
  /\ Get(reqs["r1"].snap).stock = 2
  /\ reqs["r1"].input.productId \in DOMAIN store
  /\ store[reqs["r1"].input.productId].stock = 0
  /\ Get(reqs["r1"].result).stock = 0
  /\ Get(reqs["r2"].result).stock = 0

\* C20: when the row a use case read with findById is gone by the time of
\* its repository write (UpdateProduct's update, UpdateStock's updateStock),
\* the write fails with the repository's not-found error, the use case ends
\* in that error without a result, and the row is not created again: the
\* id of a successful DeleteProduct stays absent from the store.
C20_WriteAfterDelete ==
  [][\A r \in Requests :
       /\ (/\ reqs[r].pc \in {"update", "updateStock"}
           /\ reqs'[r].pc = "done"
           /\ TargetId(reqs[r]) \notin DOMAIN store)
          => /\ reqs'[r].error.kind = "Error"
             /\ reqs'[r].error.msg
                  \in {"not found after update",
                       "not found after stock update"}
             /\ reqs'[r].result = None
             /\ store' = store
       /\ (reqs'[r].pc = "done" /\ reqs'[r].op = "DeleteProduct"
             /\ reqs'[r].error = NoError)
          => reqs'[r].input \notin DOMAIN store']_vars

\* an UpdateProduct read a product, a DeleteProduct removed it, and the
\* update then failed at repository.update; the product is still absent
C20_Witness ==
  \E r \in Requests :
    \E q \in Requests \ {r} :
      /\ Succeeded(q, "DeleteProduct")
      /\ Failed(r, "UpdateProduct")
      /\ reqs[r].input.id = reqs[q].input
      /\ reqs[r].calls = <<"findById", "update">>
      /\ reqs[r].error = Err("Error", "not found after update")
      /\ reqs[q].input \notin DOMAIN store

\* C12: Product.create checks the name, then the price, then the stock,
\* then the sku, and reports the first check that fails, whatever the later
\* arguments are; a failing create returns no Product, and a create whose
\* four checks pass returns one.
C12_CreateValidationOrder ==
  call.op = "create"
  => LET in == Get(call.input)
         nameOk == trim(in.name) # <<>>
         priceOk == in.price >= 0
         stockOk == in.stock >= 0
         skuOk == trim(in.sku) # <<>>
     IN /\ ~nameOk => call.error.msg = "Product name cannot be empty"
        /\ (nameOk /\ ~priceOk)
             => call.error.msg = "Product price cannot be negative"
        /\ (nameOk /\ priceOk /\ ~stockOk)
             => call.error.msg = "Product stock cannot be negative"
        /\ (nameOk /\ priceOk /\ stockOk /\ ~skuOk)
             => call.error.msg = "Product SKU cannot be empty"
        /\ (nameOk /\ priceOk /\ stockOk /\ skuOk)
             => (call.error = NoError /\ call.ret \in DOMAIN heap)
        /\ call.error # NoError => call.ret = 0

\* create was given a blank name, a negative price, a negative stock and an
\* empty sku, and failed on the name
C12_Witness ==
  /\ call.op = "create"
  /\ Get(call.input).name = <<" ">>
  /\ Get(call.input).price < 0
  /\ Get(call.input).stock < 0
  /\ Get(call.input).sku = <<>>
  /\ call.error.msg = "Product name cannot be empty"
  /\ call.ret = 0

ValidationMessages ==
  {"Product name cannot be empty", "Product price cannot be negative",
   "Product stock cannot be negative", "Product SKU cannot be empty",
   "Category ID cannot be empty", "Stock increment amount must be positive",
   "Stock decrement amount must be positive"}

\* C13: every validation failure raised by the Product entity (create and
\* the mutators on an invalid argument, increment and decrement on an
\* amount <= 0) is an error of kind InvalidProductData.
C13_ValidationErrorKind ==
  call.error.msg \in ValidationMessages
  => call.error.kind = "InvalidProductDataError"

Mutators ==
  {"updateName", "updateDescription", "updatePrice", "updateStock",
   "incrementStock", "decrementStock", "updateCategory", "activate",
   "deactivate"}

\* C14: a mutator leaves the instance it is called on as it was, in every
\* field; when it does not throw it returns a Product; incrementStock(n)
\* with n > 0 returns a product whose stock is the receiver's stock + n
\* while the receiver's stock stays.
C14_Immutable ==
  call.op \in Mutators
  => LET p == Get(call.input)
     IN /\ heap[1] = p
        /\ call.error = NoError => call.ret \in DOMAIN heap
        /\ (call.op = "incrementStock" /\ call.num > 0)
             => /\ call.error = NoError
                /\ heap[call.ret].stock = p.stock + call.num
                /\ heap[1].stock = p.stock

\* incrementStock(10) on a product with stock 2 returned another instance
\* with stock 12, and the receiver still has stock 2
C14_Witness ==
  /\ call.op = "incrementStock"
  /\ call.num = 10
  /\ Get(call.input).stock = 2
  /\ call.ret = 2
  /\ heap[2].stock = 12
  /\ heap[1].stock = 2

\* C15: activate (deactivate) on a product that is already active
\* (inactive) returns the receiver itself, updatedAt included; on the other
\* products it returns an instance that differs from the receiver in
\* isActive and updatedAt alone; activating the result of activate again
\* returns that same result, and likewise for deactivate; activating the
\* result of deactivate gives an active product.
C15_ActivateDeactivate ==
  /\ call.op = "activate"
     => LET p == Get(call.input)
        IN /\ IF p.isActive
              THEN call.ret = 1 /\ heap = <<p>>
              ELSE /\ call.ret = 2
                   /\ heap[2] = [p EXCEPT !.isActive = TRUE,
                                          !.updatedAt = call.at]
           /\ \A t \in 0..MaxTime :
                Product_activate(heap, call.ret, t)
                  = Returned(heap, call.ret)
  /\ call.op = "deactivate"
     => LET p == Get(call.input)
        IN /\ IF ~p.isActive
              THEN call.ret = 1 /\ heap = <<p>>
              ELSE /\ call.ret = 2
                   /\ heap[2] = [p EXCEPT !.isActive = FALSE,
                                          !.updatedAt = call.at]
           /\ \A t \in 0..MaxTime :
                /\ Product_deactivate(heap, call.ret, t)
                     = Returned(heap, call.ret)
                /\ LET again == Product_activate(heap, call.ret, t)
                   IN again.heap[again.ret].isActive

\* activate was called at time 1 on an active product last updated at
\* time 0 and returned the receiver, whose updatedAt is still 0
C15_Witness ==
  /\ call.op = "activate"
  /\ Get(call.input).isActive
  /\ call.at = 1
  /\ call.ret = 1
  /\ heap[1].updatedAt = 0
  /\ Len(heap) = 1

Satisfies(row, f) ==
  /\ f.inStock = Some(TRUE) => row.stock > 0
  /\ f.inStock = Some(FALSE) => row.stock = 0
  /\ IsSome(f.minPrice) => row.price >= Get(f.minPrice)
  /\ IsSome(f.maxPrice) => row.price <= Get(f.maxPrice)
  /\ IsSome(f.isActive) => row.isActive = Get(f.isActive)
  /\ (IsSome(f.categoryId) /\ Get(f.categoryId) # <<>>)
       => row.categoryId = Get(f.categoryId)
  /\ (IsSome(f.search) /\ Get(f.search) # <<>>)
       => \E col \in {row.name, row.description, row.sku} :
            ILike(col, Get(f.search))

C28_NormalizedDuplicateRejected ==
  [][\A r \in Requests :
       (/\ Starts(r, "CreateProduct")
        /\ \E i \in DOMAIN store :
             store[i].sku = toUpperCase(trim(reqs'[r].input.sku)))
       => /\ reqs'[r].pc = "done"
          /\ reqs'[r].error.kind = "DuplicateProductCodeError"
          /\ reqs'[r].calls = <<"existsBySku">>]_vars

\* C29: the step in which an UpdateProduct without a stock in its input
\* succeeds leaves the persisted stock of its product as it was just before
\* that step.
C29_UpdateProductKeepsStock ==
  [][\A r \in Requests :
       (/\ Ends(r, "UpdateProduct")
        /\ reqs'[r].error = NoError
        /\ ~IsSome(reqs[r].input.data.stock))
       => store'[reqs[r].input.id].stock = store[reqs[r].input.id].stock]_vars

\* C30: a persisted product keeps its id, its sku and its createdAt in every
\* step in which it stays in the store, and the updatedAt of every persisted
\* product is never earlier than its createdAt.
C30_StableIdentity ==
  [][/\ \A i \in DOMAIN store \cap DOMAIN store' :
          /\ store'[i].id = store[i].id
          /\ store'[i].sku = store[i].sku
          /\ store'[i].createdAt = store[i].createdAt
     /\ \A i \in DOMAIN store' :
          /\ store'[i].id = i
          /\ store'[i].updatedAt >= store'[i].createdAt]_vars

\* a product created at time 0 went through an UpdateProduct and an
\* UpdateStock, the later of them at time 1, and is still in the store
C30_Witness ==
  \E r \in Requests :
    \E q \in Requests \ {r} :
      /\ Succeeded(r, "UpdateProduct")
      /\ Succeeded(q, "UpdateStock")
      /\ reqs[q].input.productId = reqs[r].input.id
      /\ reqs[r].input.id \in DOMAIN store
      /\ store[reqs[r].input.id].createdAt = 0
      /\ store[reqs[r].input.id].updatedAt = 1

\* C25: a use case that ended on a violated business rule is answered with
\* the status of that rule and not with 500: 409 for a create whose sku is
\* taken, 404 for an unknown id, 400 for product data the entity refuses,
\* 400 for a decrement larger than the stock.
C25_BusinessRuleStatus ==
  \A r \in Requests :
    (reqs[r].pc = "done" /\ reqs[r].error # NoError)
    => LET error == reqs[r].error
           status == Controller_status(reqs[r].op, error)
       IN /\ error.kind \in {"DuplicateProductCodeError", "QueryFailedError"}
               => status = 409
          /\ error.kind = "ProductNotFoundError" => status = 404
          /\ error.msg \in ValidationMessages => status = 400
          /\ error.msg = "Insufficient stock" => status = 400

\* the ids of the products on the page a findAll call returned
PageIds(c) == {Get(c.answer).data[k].id : k \in DOMAIN Get(c.answer).data}

\* the metadata of the page that the step returns agrees with the filters
\* and the store
PageMetaConsistent ==
  call'.op = "findAll"
  => LET f == Get(call'.input)
         data == Get(call'.answer).data
         meta == Get(call'.answer).meta
         matching == {i \in DOMAIN store : Satisfies(store[i], f)}
         page == IF IsSome(f.page) /\ Get(f.page) # 0 THEN Get(f.page)
                 ELSE 1
         pageSize == IF IsSome(f.pageSize) /\ Get(f.pageSize) # 0
                     THEN Get(f.pageSize) ELSE 10
     IN /\ meta.page = page
        /\ meta.pageSize = pageSize
        /\ meta.totalItems = Cardinality(matching)
        /\ meta.totalPages * pageSize >= meta.totalItems
        /\ (meta.totalPages - 1) * pageSize < meta.totalItems
             \/ (meta.totalPages = 0 /\ meta.totalItems = 0)
        /\ meta.hasNextPage = (page < meta.totalPages)
        /\ meta.hasPreviousPage = (page > 1)
        /\ Len(data) <= pageSize

\* the step asks for another page of the query asked just before, and the
\* two pages have no product in common
PagesDisjoint ==
  (/\ call.op = "findAll"
   /\ call'.op = "findAll"
   /\ Get(call.answer).meta.page # Get(call'.answer).meta.page
   /\ [Get(call.input) EXCEPT !.page = Get(call'.input).page]
        = Get(call'.input))
  => PageIds(call) \cap PageIds(call') = {}

\* C26: the page metadata of findAll is consistent (page defaults to 1 and
\* pageSize to 10 when absent or 0, totalItems counts the matching products,
\* totalPages = ceil(totalItems / pageSize), hasNextPage = (page <
\* totalPages), hasPreviousPage = (page > 1), data holds at most pageSize
\* items), and two calls that differ in the page alone, made one after the
\* other on an unchanged store, return no product twice.
C26_Pagination == [][PageMetaConsistent /\ PagesDisjoint]_vars

\* C21: every Price made by Price.create and by add, subtract, multiply,
\* divide, applyDiscount and applyTax on such prices has an amount >= 0;
\* p.subtract(p) returns a price of amount 0; p.subtract(q) with q of the
\* same currency and a larger amount throws and returns no Price.
C21_PriceNonNegative ==
  /\ \A i \in DOMAIN heap : heap[i].amount >= 0
  /\ call.op = "subtract"
     => LET p == Get(call.input).self
            q == Get(call.input).other
        IN /\ q = p => (call.error = NoError /\ heap[call.ret].amount = 0)
           /\ (q.currency = p.currency /\ q.amount > p.amount)
                => (call.error # NoError /\ call.ret = 0)

\* a price of 3 cents was subtracted from itself and the result is a price
\* of 0 cents
C21_Witness ==
  /\ call.op = "subtract"
  /\ Get(call.input).self = Get(call.input).other
  /\ Get(call.input).self.amount = 3
  /\ call.ret # 0
  /\ heap[call.ret].amount = 0

\* n has the form of 3-4 alphanumerics, a hyphen, 3-6 alphanumerics
HasCodeForm(n) ==
  \E p \in 3..4 :
    \E q \in 3..6 :
      /\ Len(n) = p + 1 + q
      /\ \A i \in 1..p : IsAlnum(n[i])
      /\ n[p + 1] = "-"
      /\ \A i \in (p + 2)..Len(n) : IsAlnum(n[i])

\* C22: ProductCode.create(code) succeeds exactly when the trimmed,
\* uppercased code has length 7 to 11 and the form of 3-4 alphanumerics, a
\* hyphen, 3-6 alphanumerics; the value of the code made is that string,
\* create(c.toString()) equals c, and a failing create makes no ProductCode.
C22_CreateNormalizes ==
  [][call'.op = "create"
     => LET n == toUpperCase(trim(call'.text))
            succeeded == call'.error = NoError
        IN /\ succeeded <=> (Len(n) \in 7..11 /\ HasCodeForm(n))
           /\ succeeded
                => /\ call'.ret # 0
                   /\ heap'[call'.ret].code = n
                   /\ LET c == heap'[call'.ret]
                          again == ProductCode_create(
                                     heap', ProductCode_toString(c))
                      IN /\ again.error = NoError
                         /\ ProductCode_equals(again.heap[again.ret], c)
           /\ ~succeeded => (call'.ret = 0 /\ heap' = heap)]_vars

\* create("lap-hp001") returned the code LAP-HP001
C22_Witness ==
  /\ call.op = "create"
  /\ call.text = <<"l", "a", "p", "-", "h", "p", "0", "0", "1">>
  /\ call.error = NoError
  /\ call.ret # 0
  /\ heap[call.ret].code = <<"L", "A", "P", "-", "H", "P", "0", "0", "1">>

\* C23: ProductCode.generate(category, sequence) fails when the category is
\* empty or blank or the sequence is outside 0..999999; otherwise it returns
\* a code whose prefix is the first 4 alphanumerics of the uppercased
\* category, right-padded with X to 4 characters, or PROD when there is
\* none, whose suffix is the sequence zero-padded to 6 digits, whose
\* getSequence() is the sequence and which belongsToCategory(category).
C23_Generate ==
  call.op = "generate"
  => LET category == call.text
         sequence == Get(call.input)
         inRange == /\ sequence.d # 0
                    /\ sequence.n >= 0
                    /\ sequence.n <= 999999 * sequence.d
         alnums == SelectSeq(toUpperCase(category), IsAlnum)
         expected == IF alnums = <<>> THEN <<"P", "R", "O", "D">>
                     ELSE [i \in 1..4 |-> IF i <= Len(alnums) THEN alnums[i]
                                          ELSE "X"]
     IN IF IsBlank(category) \/ ~inRange
        THEN call.error # NoError /\ call.ret = 0
        ELSE /\ call.error = NoError
             /\ call.ret # 0
             /\ LET c == heap[call.ret]
                    suffix == ProductCode_getSuffix(c)
                IN /\ Len(ProductCode_getPrefix(c)) = 4
                   /\ ProductCode_getPrefix(c) = expected
                   /\ Len(suffix) = 6
                   /\ \A i \in DOMAIN suffix : IsDigit(suffix[i])
                   /\ Number(DigitsValue(suffix), 1) = sequence
                   /\ ProductCode_getSequence(c) = sequence
                   /\ ProductCode_belongsToCategory(c, category)

\* C27: for a code c with an all-digit suffix, c.next() below sequence
\* 999999 has the prefix of c and the sequence of c plus 1, c and c.next()
\* are sequential, and c.next().previous() has the prefix and the sequence
\* of c; next() fails at 999999 and previous() fails at 0; for prefixes of
\* 3 characters as for prefixes of 4.
C27_NextPrevious ==
  (/\ call.op \in {"next", "previous"}
   /\ \A i \in DOMAIN ProductCode_getSuffix(Get(call.input)) :
        IsDigit(ProductCode_getSuffix(Get(call.input))[i]))
  => LET c == Get(call.input)
         seq == ProductCode_getSequence(c).n
     IN /\ (call.op = "next" /\ seq < 999999)
             => /\ call.error = NoError
                /\ call.ret # 0
                /\ LET n == heap[call.ret]
                       back == ProductCode_previous(heap, call.ret)
                   IN /\ ProductCode_getPrefix(n) = ProductCode_getPrefix(c)
                      /\ ProductCode_getSequence(n) = Number(seq + 1, 1)
                      /\ ProductCode_isSequential(c, n)
                      /\ back.error = NoError
                      /\ ProductCode_getPrefix(back.heap[back.ret])
                           = ProductCode_getPrefix(c)
                      /\ ProductCode_getSequence(back.heap[back.ret])
                           = ProductCode_getSequence(c)
        /\ (call.op = "next" /\ seq = 999999) => call.error # NoError
        /\ (call.op = "previous" /\ seq = 0) => call.error # NoError

====
